---- MODULE Spec2Model ----
(***************************************************************************)
(* A model of the reconciliation and analytics engine of report_app:       *)
(*   models/student.py            SubjectResult, SubjectAttendance,        *)
(*                                StudentProfile (compute_cgpa,            *)
(*                                compute_analytics)                       *)
(*   services/file_parser.py      parse_results_file, parse_attendance_file*)
(*   services/student_matcher.py  match_students, build_attendance_only,   *)
(*                                build_results_only                       *)
(*                                                                         *)
(* Python strings are sequences of one-character strings, so that strip,   *)
(* upper, lower, title, split/join and difflib's ratio are computed and    *)
(* not assumed.  Python floats that the code rounds to two decimals are    *)
(* integers counting hundredths (75.0 is 7500).                            *)
(***************************************************************************)
EXTENDS Integers, Sequences, FiniteSets, TLC

VARIABLES
    \* ---- dataclass construction (SpecRecord) ----
    r_args,          \* arguments handed to SubjectResult(...)
    r_obj,           \* the constructed SubjectResult, or NoObject
    a_args,          \* arguments handed to SubjectAttendance(...)
    a_obj,           \* the constructed SubjectAttendance, or NoObject
    \* ---- one StudentProfile object (SpecProfile) ----
    profile,         \* the StudentProfile
    ppc,             \* "build" while rows are appended, "final" afterwards
    last_op,         \* the last method called on the profile
    n_calls,         \* number of compute_cgpa / compute_analytics calls so far
    \* ---- one analysis run (Spec) ----
    mode,            \* "both" | "attendance" | "results": which files were uploaded
    results_file,    \* decoded results table, as uploaded (sequence of rows)
    attendance_file, \* decoded attendance table, as uploaded
    results_df,      \* results DataFrame after parse_results_file
    attendance_df,   \* attendance DataFrame after parse_attendance_file
    profiles,        \* dict sid -> StudentProfile, in insertion order
    id_to_name,      \* dict sid -> name, in insertion order (match_students)
    todo,            \* groups of the running groupby loop still to visit
    match_log,       \* per attendance group of match_students: locals of lines 132-155
    students,        \* the returned list
    pc,              \* position in the run
    \* ---- GET /api/student/{student_id} (SpecView) ----
    detail_of,       \* the profile found in _latest_students
    detail,          \* needs_counseling and concern_reasons of the response
    footer,          \* footer_message of the profile, once it was read
    \* ---- parsing one uploaded file (SpecParse) ----
    upload,          \* the uploaded file: suffix, decodable, header cells, n_rows
    df_columns,      \* df.columns after parse_file
    id_col,          \* the column _detect_id_column returned
    name_col,        \* the column _detect_name_column returned
    parse_error,     \* the exception that ended the request, <<>> if none
    parse_pc,        \* position in the request
    \* ---- the optional fields of one profile (SpecFields) ----
    scalar_in,       \* mode, and per source the group's columns and first-row cells
    scalar_profile,  \* the StudentProfile the loops write to
    scalar_pc,       \* "results" | "attendance" | "done": the running loop
    scalar_idx,      \* index in group.columns of the column visited next
    \* ---- concurrent requests and the module-level stores (SpecCache) ----
    requests,        \* per request: position and the identifiers of its upload
    _sessions,       \* dict session_id -> list of profiles
    _latest_students,\* dict student_id -> profile
    store_order,     \* history: the requests in the order of their store step
    found,           \* what the last lookup by identifier returned
    \* ---- the subject rows of one student group (SpecSheet) ----
    sheet,           \* the group's rows in both files and the attendance columns
    built,           \* the builder that ran and what it returned
    sheet_pc         \* "start" | "done"

record_vars == <<r_args, r_obj, a_args, a_obj>>
profile_vars == <<profile, ppc, last_op, n_calls>>
run_vars == <<mode, results_file, attendance_file, results_df, attendance_df,
              profiles, id_to_name, todo, match_log, students, pc>>
view_vars == <<detail_of, detail, footer>>
parse_vars == <<upload, df_columns, id_col, name_col, parse_error, parse_pc>>
scalar_vars == <<scalar_in, scalar_profile, scalar_pc, scalar_idx>>
cache_vars == <<requests, _sessions, _latest_students, store_order, found>>
sheet_vars == <<sheet, built, sheet_pc>>
side_vars == <<view_vars, parse_vars, scalar_vars, cache_vars, sheet_vars>>
vars == <<r_args, r_obj, a_args, a_obj, profile, ppc, last_op, n_calls,
          mode, results_file, attendance_file, results_df, attendance_df,
          profiles, id_to_name, todo, match_log, students, pc, side_vars>>

-----------------------------------------------------------------------------
(* Bounds of the model.                                                    *)

\* classes_held and classes_attended of a constructed SubjectAttendance
\* range over -1..MaxHeld
MaxHeld == 5
\* a profile of SpecProfile receives at most MaxRecs rows (results + attendance)
MaxRecs == 2
\* compute_cgpa / compute_analytics are called at most MaxCalls times
MaxCalls == 2
\* the two uploaded tables hold at most MaxRows rows together
MaxRows == 3

-----------------------------------------------------------------------------
(* Python str methods.                                                     *)

LowerLetters == <<"a","b","c","d","e","f","g","h","i","j","k","l","m",
                  "n","o","p","q","r","s","t","u","v","w","x","y","z">>
UpperLetters == <<"A","B","C","D","E","F","G","H","I","J","K","L","M",
                  "N","O","P","Q","R","S","T","U","V","W","X","Y","Z">>
\* the characters of the model in code-point order (str comparison, sorted())
CodePoints == <<"\t", " ", "+", "0","1","2","3","4","5","6","7","8","9">>
              \o UpperLetters \o LowerLetters
Whitespace == {" ", "\t"}

IndexOf(seq, c) == CHOOSE i \in DOMAIN seq : seq[i] = c
IsLower(c) == \E i \in DOMAIN LowerLetters : LowerLetters[i] = c
IsUpper(c) == \E i \in DOMAIN UpperLetters : UpperLetters[i] = c
IsCased(c) == IsLower(c) \/ IsUpper(c)
upper_char(c) == IF IsLower(c) THEN UpperLetters[IndexOf(LowerLetters, c)] ELSE c
lower_char(c) == IF IsUpper(c) THEN LowerLetters[IndexOf(UpperLetters, c)] ELSE c
Ord(c) == IndexOf(CodePoints, c)

\* str.upper()
str_upper(s) == [i \in DOMAIN s |-> upper_char(s[i])]
\* str.lower()
str_lower(s) == [i \in DOMAIN s |-> lower_char(s[i])]
\* str.strip(): leading and trailing whitespace removed
str_strip(s) ==
    LET keep == {i \in DOMAIN s : s[i] \notin Whitespace}
        lo == CHOOSE i \in keep : \A j \in keep : i <= j
        hi == CHOOSE i \in keep : \A j \in keep : j <= i
    IN  IF keep = {} THEN <<>> ELSE SubSeq(s, lo, hi)
\* str.title(): a cased character is upper-cased when the character before it
\* is not cased, lower-cased otherwise
str_title(s) ==
    [i \in DOMAIN s |->
        IF i > 1 /\ IsCased(s[i - 1]) THEN lower_char(s[i]) ELSE upper_char(s[i])]
\* " ".join(s.split()): runs of whitespace become one space, none at the ends
RECURSIVE join_split(_)
join_split(s) ==
    LET t == str_strip(s)
        ws == {i \in DOMAIN t : t[i] \in Whitespace}
        first == CHOOSE i \in ws : \A j \in ws : i <= j
    IN  IF ws = {} THEN t
        ELSE SubSeq(t, 1, first - 1) \o <<" ">>
             \o join_split(SubSeq(t, first + 1, Len(t)))
\* s < t for Python strings: lexicographic on code points
str_less(s, t) ==
    \E k \in 1..(Len(t)) :
        /\ \A i \in 1..(k - 1) : i <= Len(s) /\ s[i] = t[i]
        /\ \/ k = Len(s) + 1
           \/ k <= Len(s) /\ Ord(s[k]) < Ord(t[k])
\* bool(s) of a str
Truthy(s) == s # <<>>

-----------------------------------------------------------------------------
(* Numbers.                                                                *)

\* round(n/d) to the nearest integer for d > 0, ties to the even neighbour:
\* Python's round(x, 2) on hundredths when n/d counts hundredths.  A tie needs
\* a denominator that is a multiple of 8 (CGPA) or 32 (percentages); those
\* ties are binary fractions, which Python rounds to even exactly as here.
RoundHalfEven(n, d) ==
    LET q == n \div d
        r == n % d
    IN  IF 2 * r < d THEN q
        ELSE IF 2 * r > d THEN q + 1
        ELSE IF q % 2 = 0 THEN q ELSE q + 1

\* A Python float is [kind |-> "num", v |-> integer] or NaN.
Num(n) == [kind |-> "num", v |-> n]
NaN == [kind |-> "nan", v |-> 0]
\* x + y, x * y, x <= 0, x > 0 on floats: NaN propagates and compares False
FAdd(x, y) == IF x.kind = "nan" \/ y.kind = "nan" THEN NaN ELSE Num(x.v + y.v)
FMul(x, y) == IF x.kind = "nan" \/ y.kind = "nan" THEN NaN ELSE Num(x.v * y.v)
FLeqZero(x) == x.kind = "num" /\ x.v <= 0
FGtZero(x) == x.kind = "num" /\ x.v > 0

\* A DataFrame cell holding a quantity: a number, a blank (pandas NaN) or
\* text that float() rejects.
NumCell(n) == [kind |-> "num", v |-> n]
BlankCell == [kind |-> "nan", v |-> 0]
TextCell == [kind |-> "text", v |-> 0]
\* float(cell): the float, or Raised for ValueError / TypeError
Raised == [kind |-> "raised", v |-> 0]
to_float(cell) == IF cell.kind = "text" THEN Raised ELSE cell
\* a cell pandas decoded as an infinite float ("inf" in a CSV file); it
\* occurs in the count and percentage columns only
InfCell == [kind |-> "inf", v |-> 0]
\* int(float(cell)): int() of NaN raises ValueError, int() of an infinite
\* float raises OverflowError, which no handler of the row loops names
OverflowError == [kind |-> "OverflowError", v |-> 0]
to_int(cell) ==
    IF cell.kind = "num" THEN cell
    ELSE IF cell.kind = "inf" THEN OverflowError
    ELSE Raised
\* int(n / d) for a float n / d: the integer part, towards zero
int_part(n, d) == IF n >= 0 THEN n \div d ELSE -((-n) \div d)

None == [kind |-> "None", v |-> 0]
NoObject == [kind |-> "None"]

-----------------------------------------------------------------------------
(* config.py                                                               *)

\* FAILED_GRADES
FAILED_GRADES == {<<"F">>, <<"F","A">>, <<"A","B">>, <<"F","A","I","L">>,
                  <<"I">>, <<"W">>}
\* GRADE_POINT_MAP
GRADE_POINT_MAP ==
    (<<"O">> :> 10) @@ (<<"A","+">> :> 9) @@ (<<"A">> :> 8) @@ (<<"B","+">> :> 7)
    @@ (<<"B">> :> 6) @@ (<<"C">> :> 5) @@ (<<"P">> :> 4) @@ (<<"F">> :> 0)
    @@ (<<"F","A">> :> 0) @@ (<<"A","B">> :> 0) @@ (<<"F","A","I","L">> :> 0)
    @@ (<<"I">> :> 0) @@ (<<"W">> :> 0)

-----------------------------------------------------------------------------
(* models/student.py                                                       *)

\* the set literal of SubjectResult.__post_init__
BacklogGradeLiteral == {<<"F">>, <<"F","A">>, <<"A","B">>, <<"F","A","I","L">>,
                        <<"I">>, <<"W">>}

\* A plausible slip: the literal misses the withdrawn grade W and the flag the
\* caller passed is kept for every other grade.
SubjectResult_keeps_flag(subject_code, subject_name, grade, credits, is_backlog) ==
    LET g == str_upper(str_strip(grade))
    IN  [subject_code |-> subject_code, subject_name |-> subject_name,
         grade |-> g, credits |-> credits,
         is_backlog |-> (g \in (BacklogGradeLiteral \ {<<"W">>})) \/ is_backlog]

\* SubjectResult(...) with __post_init__ applied
SubjectResult(subject_code, subject_name, grade, credits, is_backlog) ==
    LET g == str_upper(str_strip(grade))
    IN  [subject_code |-> subject_code, subject_name |-> subject_name,
         grade |-> g, credits |-> credits,
         is_backlog |-> g \in BacklogGradeLiteral]

\* the literals 75.0 and 80.0 of _compute_status, in hundredths
RedBelow == 7500
YellowBelow == 8000

\* A plausible slip: <= for < at the Red threshold.
compute_status_le(attendance_percentage) ==
    IF attendance_percentage <= RedBelow THEN "Red"
    ELSE IF attendance_percentage < YellowBelow THEN "Yellow"
    ELSE "Green"

\* SubjectAttendance._compute_status
compute_status(attendance_percentage) ==
    IF attendance_percentage < RedBelow THEN "Red"
    ELSE IF attendance_percentage < YellowBelow THEN "Yellow"
    ELSE "Green"

\* A plausible slip: _compute_status is called under "if classes_held > 0"
\* too, so a record without classes keeps the default status.
SubjectAttendance_status_inside(subject_code, subject_name, classes_held, classes_attended) ==
    LET pct == IF classes_held > 0
               THEN RoundHalfEven(classes_attended * 10000, classes_held)
               ELSE 0
    IN  [subject_code |-> subject_code, subject_name |-> subject_name,
         classes_held |-> classes_held, classes_attended |-> classes_attended,
         attendance_percentage |-> pct,
         status |-> IF classes_held > 0 THEN compute_status(pct) ELSE "Green"]

\* SubjectAttendance(subject_code, subject_name, classes_held, classes_attended)
\* with __post_init__ applied; attendance_percentage keeps its default 0.0
\* unless classes_held > 0
SubjectAttendance(subject_code, subject_name, classes_held, classes_attended) ==
    LET pct == IF classes_held > 0
               THEN RoundHalfEven(classes_attended * 10000, classes_held)
               ELSE 0
    IN  [subject_code |-> subject_code, subject_name |-> subject_name,
         classes_held |-> classes_held, classes_attended |-> classes_attended,
         attendance_percentage |-> pct, status |-> compute_status(pct)]

\* StudentProfile(student_id=..., student_name=...): every other field at its default
StudentProfile(student_id, student_name) ==
    [student_id |-> student_id, student_name |-> student_name,
     section |-> <<>>, year |-> <<>>, semester |-> <<>>, branch |-> <<>>,
     email |-> <<>>, phone |-> <<>>,
     counselor_name |-> <<>>, counselor_id |-> <<>>,
     counselor_email |-> <<>>, counselor_phone |-> <<>>,
     cgpa |-> None, cgpa_source |-> "",
     previous_results |-> <<>>, attendance_records |-> <<>>,
     backlog_count |-> 0, backlog_subjects |-> <<>>,
     has_low_attendance |-> FALSE, low_attendance_subjects |-> <<>>,
     overall_attendance |-> 0]

\* the loop of compute_cgpa: <<total_weighted, total_credits>> after results[i..]
RECURSIVE cgpa_loop(_, _, _, _)
cgpa_loop(results, i, total_weighted, total_credits) ==
    IF i > Len(results) THEN <<total_weighted, total_credits>>
    ELSE LET r == results[i]
         IN  IF FLeqZero(r.credits)
             THEN cgpa_loop(results, i + 1, total_weighted, total_credits)
             ELSE IF r.grade \notin DOMAIN GRADE_POINT_MAP
             THEN cgpa_loop(results, i + 1, total_weighted, total_credits)
             ELSE cgpa_loop(results, i + 1,
                     FAdd(total_weighted,
                          FMul(Num(GRADE_POINT_MAP[r.grade]), r.credits)),
                     FAdd(total_credits, r.credits))

\* A plausible slip: the guard on a CGPA read from the file is missing.
compute_cgpa_recomputes(p) ==
    IF p.previous_results = <<>> THEN p
    ELSE LET sums == cgpa_loop(p.previous_results, 1, Num(0), Num(0))
         IN  IF FGtZero(sums[2])
             THEN [p EXCEPT !.cgpa = Num(RoundHalfEven(100 * sums[1].v, sums[2].v)),
                            !.cgpa_source = "computed"]
             ELSE p

\* StudentProfile.compute_cgpa
compute_cgpa(p) ==
    IF p.cgpa # None THEN p
    ELSE IF p.previous_results = <<>> THEN p
    ELSE LET sums == cgpa_loop(p.previous_results, 1, Num(0), Num(0))
         IN  IF FGtZero(sums[2])
             THEN [p EXCEPT !.cgpa = Num(RoundHalfEven(100 * sums[1].v, sums[2].v)),
                            !.cgpa_source = "computed"]
             ELSE p

\* [x.subject_name for x in xs if x is selected], selected given as a set of indices
RECURSIVE names_where(_, _, _)
names_where(xs, selected, i) ==
    IF i > Len(xs) THEN <<>>
    ELSE (IF i \in selected THEN <<xs[i].subject_name>> ELSE <<>>)
         \o names_where(xs, selected, i + 1)

\* sum(f(a) for a in xs), the summands given as a sequence of integers
RECURSIVE py_sum(_)
py_sum(ns) == IF ns = <<>> THEN 0 ELSE Head(ns) + py_sum(Tail(ns))

\* A plausible slip: a subject already listed is not listed again.
RECURSIVE dedup(_)
dedup(xs) ==
    IF xs = <<>> THEN <<>>
    ELSE LET front == dedup(SubSeq(xs, 1, Len(xs) - 1))
             x == xs[Len(xs)]
         IN  IF \E i \in DOMAIN front : front[i] = x THEN front ELSE Append(front, x)
backlog_subjects_dedup(p) ==
    dedup(names_where(p.previous_results,
            {i \in DOMAIN p.previous_results : p.previous_results[i].is_backlog}, 1))

\* the backlog part of compute_analytics
backlog_subjects_of(p) ==
    names_where(p.previous_results,
                {i \in DOMAIN p.previous_results : p.previous_results[i].is_backlog}, 1)


\* A plausible slip: Yellow counts as low attendance too.
has_low_attendance_yellow(p) ==
    \E i \in DOMAIN p.attendance_records :
        p.attendance_records[i].status \in {"Red", "Yellow"}

\* the attendance part of compute_analytics
low_attendance_subjects_of(p) ==
    names_where(p.attendance_records,
                {i \in DOMAIN p.attendance_records :
                    p.attendance_records[i].status \in {"Red", "Yellow"}}, 1)
has_low_attendance_of(p) ==
    \E i \in DOMAIN p.attendance_records : p.attendance_records[i].status = "Red"

\* A plausible slip: the mean of the per-subject percentages instead of the
\* ratio of the totals.
overall_attendance_mean(p) ==
    LET n == Len(p.attendance_records)
        total ==
            py_sum([i \in DOMAIN p.attendance_records |->
                        p.attendance_records[i].attendance_percentage])
    IN  IF n > 0 THEN RoundHalfEven(total, n) ELSE p.overall_attendance

\* the overall-attendance part of compute_analytics: the new value of the field
overall_attendance_of(p) ==
    LET total_held ==
            py_sum([i \in DOMAIN p.attendance_records |->
                        p.attendance_records[i].classes_held])
        total_attended ==
            py_sum([i \in DOMAIN p.attendance_records |->
                        p.attendance_records[i].classes_attended])
    IN  IF total_held > 0
        THEN RoundHalfEven(total_attended * 10000, total_held)
        ELSE p.overall_attendance

\* StudentProfile.compute_analytics
compute_analytics(p) ==
    LET q == compute_cgpa(p)
        subjects == backlog_subjects_of(q)
    IN  [q EXCEPT !.backlog_subjects = subjects,
                  !.backlog_count = Len(subjects),
                  !.low_attendance_subjects = low_attendance_subjects_of(q),
                  !.has_low_attendance = has_low_attendance_of(q),
                  !.overall_attendance = overall_attendance_of(q)]

\* A plausible slip: "and" for "or".
needs_counseling_and(p) == p.has_low_attendance /\ p.backlog_count > 0

\* StudentProfile.needs_counseling
needs_counseling(p) == p.has_low_attendance \/ p.backlog_count > 0

\* [a.subject_name for a in self.attendance_records if a.status == status]
subjects_with_status(p, status) ==
    names_where(p.attendance_records,
                {i \in DOMAIN p.attendance_records :
                    p.attendance_records[i].status = status}, 1)

\* the three statements of concern_reasons; a statement is its fixed wording
\* (kind) with the values formatted into it
red_clause(p) ==
    IF p.has_low_attendance
    THEN <<[kind |-> "red", count |-> 0, subjects |-> subjects_with_status(p, "Red")]>>
    ELSE <<>>
yellow_clause(p) ==
    IF subjects_with_status(p, "Yellow") # <<>>
    THEN <<[kind |-> "yellow", count |-> 0, subjects |-> subjects_with_status(p, "Yellow")]>>
    ELSE <<>>
backlog_clause(p) ==
    IF p.backlog_count > 0
    THEN <<[kind |-> "backlog", count |-> p.backlog_count, subjects |-> p.backlog_subjects]>>
    ELSE <<>>

\* A plausible slip: the backlog statement is appended first.
concern_reasons_backlog_first(p) == backlog_clause(p) \o red_clause(p) \o yellow_clause(p)

\* StudentProfile.concern_reasons
concern_reasons(p) == red_clause(p) \o yellow_clause(p) \o backlog_clause(p)

\* the department named when the profile has no branch
DefaultDepartment == <<"A","I"," ","&"," ","D","S">>

\* A plausible slip: the footer tests the attendance flag alone.
footer_message_attendance_only(p) ==
    IF ~p.has_low_attendance
    THEN [kind |-> "satisfactory", reasons |-> <<>>, department |-> <<>>]
    ELSE [kind |-> "attention", reasons |-> concern_reasons(p),
          department |-> IF Truthy(p.branch) THEN p.branch ELSE DefaultDepartment]

\* StudentProfile.footer_message: the fixed positive statement, or the request
\* for counseling with the concern reasons joined into it and the department
footer_message(p) ==
    IF ~needs_counseling(p)
    THEN [kind |-> "satisfactory", reasons |-> <<>>, department |-> <<>>]
    ELSE [kind |-> "attention", reasons |-> concern_reasons(p),
          department |-> IF Truthy(p.branch) THEN p.branch ELSE DefaultDepartment]

-----------------------------------------------------------------------------
(* services/student_matcher.py: from a row of a group to a subject record. *)
(* The tables carry the columns the parsers document (Student_ID,          *)
(* Student_Name, Subject_Code, Subject_Name, Grade, Credits, optionally    *)
(* CGPA; Classes_Held, Classes_Attended); an attendance table may lack the *)
(* count columns and carry Attendance_Percentage.  A column _detect_column *)
(* finds is a field of the row.                                            *)

\* a DataFrame cell holding text
StrCell(s) == [kind |-> "str", v |-> s]
\* str(cell): a blank cell is pandas NaN and prints as "nan"
py_str(cell) == IF cell.kind = "nan" THEN <<"n","a","n">> ELSE cell.v

\* credits of a results row: float(cell), 0.0 when float() raises
credits_of(cell) == IF to_float(cell) = Raised THEN Num(0) ELSE to_float(cell)

\* body of the results row loop (match_students, build_results_only)
append_result(p, row) ==
    LET s_code == str_strip(py_str(row.subject_code))
        s_name == str_strip(py_str(row.subject_name))
        grade == str_strip(py_str(row.grade))
        credits == credits_of(row.credits)
    IN  IF Truthy(grade)
        THEN [p EXCEPT !.previous_results =
                 Append(@, SubjectResult(s_code, s_name, grade, credits, FALSE))]
        ELSE p

\* the columns _detect_column finds in a group are the fields of its rows
held_col(row) == "classes_held" \in DOMAIN row
attended_col(row) == "classes_attended" \in DOMAIN row
pct_col(row) == "attendance_percentage" \in DOMAIN row

\* the assumed total of the percentage branch
AssumedTotal == 100

\* "elif pct_col:" of both attendance row loops; the cell counts tenths of a
\* percent.  <<classes_held, classes_attended, exception leaving the loop>>
held_attended_pct(cell) ==
    IF to_float(cell) = Raised THEN <<0, 0, "">>
    ELSE IF to_int(cell) = Raised THEN <<AssumedTotal, 0, "">>
    ELSE IF to_int(cell) = OverflowError THEN <<AssumedTotal, 0, "OverflowError">>
    ELSE <<AssumedTotal, int_part(cell.v, 10), "">>

\* classes_held, classes_attended of an attendance row in match_students and
\* the exception that leaves the loop: a ValueError resets both to 0
held_attended_match(row) ==
    IF held_col(row) /\ attended_col(row)
    THEN LET held == to_int(row.classes_held)
             attended == to_int(row.classes_attended)
         IN  IF held = OverflowError THEN <<0, 0, "OverflowError">>
             ELSE IF held = Raised THEN <<0, 0, "">>
             ELSE IF attended = OverflowError THEN <<held.v, 0, "OverflowError">>
             ELSE IF attended = Raised THEN <<0, 0, "">>
             ELSE <<held.v, attended.v, "">>
    ELSE IF pct_col(row) THEN held_attended_pct(row.attendance_percentage)
    ELSE <<0, 0, "">>

\* body of the attendance row loop of match_students
append_attendance(p, row) ==
    LET s_code == str_strip(py_str(row.subject_code))
        s_name == str_strip(py_str(row.subject_name))
        ha == held_attended_match(row)
    IN  IF Truthy(s_code) \/ Truthy(s_name)
        THEN [p EXCEPT !.attendance_records =
                 Append(@, SubjectAttendance(s_code, s_name, ha[1], ha[2]))]
        ELSE p

\* A plausible slip: the source is marked as soon as the cell parses, before
\* the value is tested.
read_cgpa_marks_first(p, cgpa_col, raw) ==
    IF ~cgpa_col THEN p
    ELSE LET val == to_float(raw)
         IN  IF val = Raised THEN p
             ELSE IF FGtZero(val)
             THEN [p EXCEPT !.cgpa = Num(RoundHalfEven(val.v, 10)),
                            !.cgpa_source = "csv"]
             ELSE [p EXCEPT !.cgpa_source = "csv"]

\* "Read CGPA from CSV if column exists": the cell counts thousandths
read_cgpa(p, cgpa_col, raw) ==
    IF ~cgpa_col THEN p
    ELSE LET val == to_float(raw)
         IN  IF val # Raised /\ FGtZero(val)
             THEN [p EXCEPT !.cgpa = Num(RoundHalfEven(val.v, 10)),
                            !.cgpa_source = "csv"]
             ELSE p

-----------------------------------------------------------------------------
(* Inputs.                                                                 *)

\* grade arguments of SubjectResult: the pass grades, the failing grades,
\* variants in other case and with surrounding whitespace, two unknown ones
PassGrades == {<<"O">>, <<"A","+">>, <<"A">>, <<"B","+">>, <<"B">>, <<"C">>, <<"P">>}
GradeArgs ==
    PassGrades \cup FAILED_GRADES
    \cup {<<" ","f"," ">>, <<"f","a">>, <<"A","b","\t">>, <<"F","a","i","l">>,
          <<" ","i">>, <<"w">>, <<"a","+"," ">>, <<"o">>, <<"X">>, <<>>}

\* cells of the rows appended to the profile of SpecProfile
SubjectNames == {<<"M">>, <<"P">>}
GradeCells == {StrCell(<<"O">>), StrCell(<<"B","+">>), StrCell(<<" ","f">>),
               StrCell(<<"X">>)}
CreditCells == {NumCell(3), NumCell(4), NumCell(5), TextCell, BlankCell}
HeldCells == {NumCell(-4), NumCell(0), NumCell(4), NumCell(5)}
AttendedCells == {NumCell(2), NumCell(3), NumCell(4)}
\* CGPA cells count thousandths: 8.125, 0.0, blank, text
CgpaCells == {NumCell(8125), NumCell(0), BlankCell, TextCell}

ResultRows ==
    {[subject_code |-> StrCell(<<>>), subject_name |-> StrCell(n),
      grade |-> g, credits |-> c] :
        n \in SubjectNames, g \in GradeCells, c \in CreditCells}
AttendanceRows ==
    {[subject_code |-> StrCell(<<>>), subject_name |-> StrCell(n),
      classes_held |-> h, classes_attended |-> a] :
        n \in SubjectNames, h \in HeldCells, a \in AttendedCells}

-----------------------------------------------------------------------------
(* The three state machines share the variables; each leaves the others'   *)
(* variables at rest.                                                      *)

RecordIdle == r_args = <<>> /\ r_obj = <<>> /\ a_args = <<>> /\ a_obj = <<>>
ProfileIdle == profile = <<>> /\ ppc = "idle" /\ last_op = "" /\ n_calls = 0
RunIdle ==
    /\ mode = "" /\ results_file = <<>> /\ attendance_file = <<>>
    /\ results_df = <<>> /\ attendance_df = <<>> /\ profiles = <<>>
    /\ id_to_name = <<>> /\ todo = <<>> /\ match_log = <<>> /\ students = <<>>
    /\ pc = "idle"
ViewIdle == detail_of = <<>> /\ detail = <<>> /\ footer = <<>>
ParseIdle ==
    /\ upload = <<>> /\ df_columns = <<>> /\ id_col = <<>> /\ name_col = <<>>
    /\ parse_error = <<>> /\ parse_pc = "idle"
ScalarIdle ==
    /\ scalar_in = <<>> /\ scalar_profile = <<>> /\ scalar_pc = "idle" /\ scalar_idx = 0
CacheIdle ==
    /\ requests = <<>> /\ _sessions = <<>> /\ _latest_students = <<>>
    /\ store_order = <<>> /\ found = <<>>
SheetIdle == sheet = <<>> /\ built = <<>> /\ sheet_pc = "idle"
SideIdle == ViewIdle /\ ParseIdle /\ ScalarIdle /\ CacheIdle /\ SheetIdle

-----------------------------------------------------------------------------
(* SpecRecord: constructing one SubjectResult and one SubjectAttendance.   *)

RecordInit ==
    /\ r_args \in [grade : GradeArgs, is_backlog : BOOLEAN]
    /\ a_args \in [classes_held : (-1)..MaxHeld, classes_attended : (-1)..(MaxHeld + 1)]
    /\ r_obj = <<>>
    /\ a_obj = <<>>
    /\ ProfileIdle /\ RunIdle /\ SideIdle

NewSubjectResult ==
    /\ r_args # <<>> /\ r_obj = <<>>
    /\ r_obj' = <<SubjectResult(<<"S">>, <<"M">>, r_args.grade, Num(3), r_args.is_backlog)>>
    /\ UNCHANGED <<r_args, a_args, a_obj, profile_vars, run_vars, side_vars>>

NewSubjectAttendance ==
    /\ a_args # <<>> /\ a_obj = <<>>
    /\ a_obj' = <<SubjectAttendance(<<"S">>, <<"M">>, a_args.classes_held,
                                    a_args.classes_attended)>>
    /\ UNCHANGED <<r_args, r_obj, a_args, profile_vars, run_vars, side_vars>>

RecordNext == NewSubjectResult \/ NewSubjectAttendance
SpecRecord == RecordInit /\ [][RecordNext]_vars

-----------------------------------------------------------------------------
(* SpecProfile: one StudentProfile from creation to its analytics.         *)

ProfileInit ==
    /\ \E cgpa_col \in BOOLEAN, raw \in CgpaCells :
          profile = read_cgpa(StudentProfile(<<"A","1">>, <<"R","a","v","i">>),
                              cgpa_col, raw)
    /\ ppc = "build"
    /\ last_op = "init"
    /\ n_calls = 0
    /\ RecordIdle /\ RunIdle /\ SideIdle

NumRecs(p) == Len(p.previous_results) + Len(p.attendance_records)

AppendResult ==
    /\ ppc = "build" /\ NumRecs(profile) < MaxRecs
    /\ \E row \in ResultRows : profile' = append_result(profile, row)
    /\ last_op' = "append"
    /\ UNCHANGED <<ppc, n_calls, record_vars, run_vars, side_vars>>

AppendAttendance ==
    /\ ppc = "build" /\ NumRecs(profile) < MaxRecs
    /\ \E row \in AttendanceRows : profile' = append_attendance(profile, row)
    /\ last_op' = "append"
    /\ UNCHANGED <<ppc, n_calls, record_vars, run_vars, side_vars>>

ComputeCgpa ==
    /\ ppc \in {"build", "final"} /\ n_calls < MaxCalls
    /\ profile' = compute_cgpa(profile)
    /\ ppc' = "final"
    /\ last_op' = "compute_cgpa"
    /\ n_calls' = n_calls + 1
    /\ UNCHANGED <<record_vars, run_vars, side_vars>>

ComputeAnalytics ==
    /\ ppc \in {"build", "final"} /\ n_calls < MaxCalls
    /\ profile' = compute_analytics(profile)
    /\ ppc' = "final"
    /\ last_op' = "compute_analytics"
    /\ n_calls' = n_calls + 1
    /\ UNCHANGED <<record_vars, run_vars, side_vars>>

ProfileNext == AppendResult \/ AppendAttendance \/ ComputeCgpa \/ ComputeAnalytics
SpecProfile == ProfileInit /\ [][ProfileNext]_vars

-----------------------------------------------------------------------------
(* difflib.SequenceMatcher(None, a, b).ratio(), no junk.                   *)

\* the number of matching characters: the longest common block (of the longest
\* ones the one earliest in a, then earliest in b), then the same to the left
\* and to the right of it
RECURSIVE matching_chars(_, _)
matching_chars(a, b) ==
    LET blocks == {x \in (1..Len(a)) \X (1..Len(b)) \X (1..Len(a)) :
                      /\ x[1] + x[3] - 1 <= Len(a)
                      /\ x[2] + x[3] - 1 <= Len(b)
                      /\ SubSeq(a, x[1], x[1] + x[3] - 1) = SubSeq(b, x[2], x[2] + x[3] - 1)}
        best == CHOOSE x \in blocks : \A y \in blocks :
                    \/ x[3] > y[3]
                    \/ x[3] = y[3] /\ x[1] < y[1]
                    \/ x[3] = y[3] /\ x[1] = y[1] /\ x[2] <= y[2]
    IN  IF blocks = {} THEN 0
        ELSE best[3]
             + matching_chars(SubSeq(a, 1, best[1] - 1), SubSeq(b, 1, best[2] - 1))
             + matching_chars(SubSeq(a, best[1] + best[3], Len(a)),
                              SubSeq(b, best[2] + best[3], Len(b)))

\* ratio() as the fraction <<numerator, denominator>>: 2.0 * M / T, 1.0 when T = 0
ratio(a, b) ==
    IF Len(a) + Len(b) = 0 THEN <<1, 1>>
    ELSE <<2 * matching_chars(a, b), Len(a) + Len(b)>>
\* x > y and x >= y on such fractions
score_gt(x, y) == x[1] * y[2] > y[1] * x[2]

-----------------------------------------------------------------------------
(* services/student_matcher.py                                             *)

\* _normalize_name
_normalize_name(name) == join_split(str_lower(str_strip(name)))
\* _name_similarity
_name_similarity(name1, name2) == ratio(_normalize_name(name1), _normalize_name(name2))

\* the literal 0.85 of match_students, in hundredths
MatchThreshold == 85
\* best_score >= 0.85
accepts(best_score) == 100 * best_score[1] >= MatchThreshold * best_score[2]

-----------------------------------------------------------------------------
(* Python dict, in insertion order: a sequence of [key, val].              *)

has_key(d, k) == \E i \in DOMAIN d : d[i].key = k
dict_get(d, k) == d[CHOOSE i \in DOMAIN d : d[i].key = k].val
\* d[k] = v
dict_set(d, k, v) ==
    IF has_key(d, k)
    THEN [i \in DOMAIN d |-> IF d[i].key = k THEN [key |-> k, val |-> v] ELSE d[i]]
    ELSE Append(d, [key |-> k, val |-> v])
\* list(d.values())
dict_values(d) == [i \in DOMAIN d |-> d[i].val]

-----------------------------------------------------------------------------
(* pandas                                                                  *)

\* sorted(xs) of distinct strings, given as a set
RECURSIVE sorted_strings(_)
sorted_strings(S) ==
    IF S = {} THEN <<>>
    ELSE LET least == CHOOSE x \in S : \A y \in S : y = x \/ str_less(x, y)
         IN  <<least>> \o sorted_strings(S \ {least})

\* the rows of df (a sequence) whose column id_col equals key, in file order
RECURSIVE rows_with(_, _)
rows_with(df, key) ==
    IF df = <<>> THEN <<>>
    ELSE (IF Head(df).student_id = key THEN <<Head(df)>> ELSE <<>>)
         \o rows_with(Tail(df), key)

\* A plausible slip: the rows are iterated, every row a group of its own.
groupby_per_row(df) ==
    [k \in DOMAIN df |-> [key |-> df[k].student_id, rows |-> <<df[k]>>]]

\* df.groupby(id_col): the groups in ascending key order, as iterated
groupby(df) ==
    LET keys == sorted_strings({df[i].student_id : i \in DOMAIN df})
    IN  [k \in DOMAIN keys |-> [key |-> keys[k], rows |-> rows_with(df, keys[k])]]

-----------------------------------------------------------------------------
(* services/file_parser.py                                                 *)

\* parse_results_file / parse_attendance_file after parse_file succeeded:
\* the identifier column becomes str.strip().upper(), the name column
\* str.strip().title()
normalize_id_name(df) ==
    [i \in DOMAIN df |->
        [df[i] EXCEPT !.student_id = str_upper(str_strip(@)),
                      !.student_name = str_title(str_strip(@))]]

-----------------------------------------------------------------------------
(* services/student_matcher.py: the builders, one groupby iteration a step *)

\* the row loop of a group, from row i on
RECURSIVE append_results(_, _, _)
append_results(p, rows, i) ==
    IF i > Len(rows) THEN p ELSE append_results(append_result(p, rows[i]), rows, i + 1)
RECURSIVE append_attendances(_, _, _)
append_attendances(p, rows, i) ==
    IF i > Len(rows) THEN p
    ELSE append_attendances(append_attendance(p, rows[i]), rows, i + 1)

\* the CGPA column of a group and its first cell; the documented results
\* columns hold no CGPA column unless the rows carry a cgpa field
has_cgpa_col(group) == "cgpa" \in DOMAIN group.rows[1]
first_cgpa(group) == IF has_cgpa_col(group) THEN group.rows[1].cgpa ELSE BlankCell

\* one iteration of "for student_id, group in results_grouped" (Step 1 of
\* match_students, and build_results_only): the profile of the group.  None
\* of the documented columns is an optional-field column.
results_profile(group) ==
    LET sid == str_upper(str_strip(group.key))
        name == group.rows[1].student_name
        p == read_cgpa(StudentProfile(sid, name), has_cgpa_col(group), first_cgpa(group))
    IN  append_results(p, group.rows, 1)

\* the fallback loop "for existing_id, existing_name in id_to_name.items()":
\* <<best_match_id, best_score>>; best_match_id is <<>> for None, <<id>> for an id
RECURSIVE best_match(_, _, _, _, _)
best_match(items, i, name, best_match_id, best_score) ==
    IF i > Len(items) THEN <<best_match_id, best_score>>
    ELSE LET score == _name_similarity(name, items[i].val)
         IN  IF score_gt(score, best_score)
             THEN best_match(items, i + 1, name, <<items[i].key>>, score)
             ELSE best_match(items, i + 1, name, best_match_id, best_score)

\* "if best_score >= 0.85 and best_match_id": a str is true iff it is not empty
fuzzy_accepts(best) == accepts(best[2]) /\ best[1] # <<>> /\ Truthy(best[1][1])

\* A plausible slip: the identifier match is skipped, names decide alone.
resolve_by_name_only(registry, names, sid, name) ==
    LET best == best_match(names, 1, name, <<>>, <<0, 1>>)
    IN  IF fuzzy_accepts(best)
        THEN [by |-> "name", target |-> best[1][1], best |-> best]
        ELSE [by |-> "new", target |-> sid, best |-> best]

\* lines 135-155 of match_students: which profile the attendance group goes to
resolve(registry, names, sid, name) ==
    IF has_key(registry, sid)
    THEN [by |-> "id", target |-> sid, best |-> <<<<>>, <<0, 1>>>>]
    ELSE LET best == best_match(names, 1, name, <<>>, <<0, 1>>)
         IN  IF fuzzy_accepts(best)
             THEN [by |-> "name", target |-> best[1][1], best |-> best]
             ELSE [by |-> "new", target |-> sid, best |-> best]

\* A plausible slip: the returned list keeps the registry's insertion order.
unsorted_values(ps) == ps

\* sorted(profiles.values(), key=lambda p: p.student_id): stable insertion sort
RECURSIVE sorted_by_id(_)
sorted_by_id(ps) ==
    IF ps = <<>> THEN <<>>
    ELSE LET front == sorted_by_id(SubSeq(ps, 1, Len(ps) - 1))
             x == ps[Len(ps)]
             before == {i \in DOMAIN front : ~str_less(x.student_id, front[i].student_id)}
         IN  SubSeq(front, 1, Cardinality(before)) \o <<x>>
             \o SubSeq(front, Cardinality(before) + 1, Len(front))

\* "for profile in profiles.values(): profile.compute_analytics()" and the
\* sorted return
finish(registry) ==
    sorted_by_id([i \in DOMAIN registry |-> compute_analytics(registry[i].val)])

\* classes_held, classes_attended of an attendance row in
\* build_attendance_only: a failing conversion keeps what was assigned before it
held_attended_only(row) ==
    IF held_col(row) /\ attended_col(row)
    THEN LET held == to_int(row.classes_held)
             attended == to_int(row.classes_attended)
         IN  IF held = OverflowError THEN <<0, 0, "OverflowError">>
             ELSE IF held = Raised THEN <<0, 0, "">>
             ELSE IF attended = OverflowError THEN <<held.v, 0, "OverflowError">>
             ELSE IF attended = Raised THEN <<held.v, 0, "">>
             ELSE <<held.v, attended.v, "">>
    ELSE IF pct_col(row) THEN held_attended_pct(row.attendance_percentage)
    ELSE <<0, 0, "">>

\* body of the attendance row loop of build_attendance_only
append_attendance_only(p, row) ==
    LET s_code == str_strip(py_str(row.subject_code))
        s_name == str_strip(py_str(row.subject_name))
        ha == held_attended_only(row)
    IN  IF Truthy(s_code) \/ Truthy(s_name)
        THEN [p EXCEPT !.attendance_records =
                 Append(@, SubjectAttendance(s_code, s_name, ha[1], ha[2]))]
        ELSE p
RECURSIVE append_attendances_only(_, _, _)
append_attendances_only(p, rows, i) ==
    IF i > Len(rows) THEN p
    ELSE append_attendances_only(append_attendance_only(p, rows[i]), rows, i + 1)

\* one iteration of "for student_id, group in attendance_grouped" of
\* build_attendance_only: the profile of the group
attendance_profile(group) ==
    LET sid == str_upper(str_strip(group.key))
        name == group.rows[1].student_name
    IN  append_attendances_only(StudentProfile(sid, name), group.rows, 1)

-----------------------------------------------------------------------------
(* Spec: one analysis run, from the decoded tables to the returned list.   *)

\* identifier cells as they stand in an uploaded file: the results file
\* writes a1, the attendance file A1 with a trailing blank; b2 and the blank
\* cell occur in both
ResultsRawIds == {<<"a","1">>, <<"b","2">>, <<" ">>}
AttendanceRawIds == {<<"A","1"," ">>, <<"b","2">>, <<" ">>}
\* name cells: "ra  v" normalises to "ra v", whose ratio to "rav" is 6/7; the
\* ratio of "rav" to "ra" is 4/5, of "ra v" to "ra" 4/6
RawNames == {<<"r","a"," "," ","v">>, <<"r","a","v">>, <<"r","a">>}
Digits == <<"1","2","3","4","5","6","7","8","9">>

\* row i of a results file: subject code R<i>, failed in odd rows
ResultsRow(i, id, name) ==
    [student_id |-> id, student_name |-> name,
     subject_code |-> StrCell(<<"R", Digits[i]>>), subject_name |-> StrCell(<<"M", Digits[i]>>),
     grade |-> StrCell(IF i % 2 = 1 THEN <<"f">> ELSE <<"O">>),
     credits |-> NumCell(3)]
\* row j of an attendance file: subject code T<j>, 2 of 4 classes attended in
\* odd rows, 4 of 4 in even rows
AttendanceRow(j, id, name) ==
    [student_id |-> id, student_name |-> name,
     subject_code |-> StrCell(<<"T", Digits[j]>>), subject_name |-> StrCell(<<"N", Digits[j]>>),
     classes_held |-> NumCell(4),
     classes_attended |-> NumCell(IF j % 2 = 1 THEN 2 ELSE 4)]

Init ==
    /\ mode \in {"both", "attendance", "results"}
    /\ \E nr \in 0..MaxRows, na \in 0..MaxRows :
          /\ nr + na <= MaxRows
          /\ mode = "attendance" => nr = 0
          /\ mode = "results" => na = 0
          /\ \E ids \in [1..nr -> ResultsRawIds], names \in [1..nr -> RawNames] :
                results_file = [i \in 1..nr |-> ResultsRow(i, ids[i], names[i])]
          /\ \E ids \in [1..na -> AttendanceRawIds], names \in [1..na -> RawNames] :
                attendance_file = [j \in 1..na |-> AttendanceRow(j, ids[j], names[j])]
    /\ results_df = <<>> /\ attendance_df = <<>>
    /\ profiles = <<>> /\ id_to_name = <<>> /\ todo = <<>>
    /\ match_log = <<>> /\ students = <<>>
    /\ pc = "start"
    /\ RecordIdle /\ ProfileIdle /\ SideIdle

\* analyze_files, "Parse & match" up to the call of the builder.  parse_file
\* raises FileParserError for a table without rows, which ends the request.
Parse ==
    /\ pc = "start"
    /\ LET need_r == mode \in {"both", "results"}
           need_a == mode \in {"both", "attendance"}
           empty == (need_r /\ results_file = <<>>) \/ (need_a /\ attendance_file = <<>>)
           rdf == IF need_r THEN normalize_id_name(results_file) ELSE <<>>
           adf == IF need_a THEN normalize_id_name(attendance_file) ELSE <<>>
       IN  IF empty
           THEN /\ pc' = "failed"
                /\ UNCHANGED <<results_df, attendance_df, todo>>
           ELSE /\ results_df' = rdf
                /\ attendance_df' = adf
                /\ todo' = IF need_r THEN groupby(rdf) ELSE groupby(adf)
                /\ pc' = CASE mode = "both" -> "step1"
                           [] mode = "attendance" -> "attendance_only"
                           [] OTHER -> "results_only"
    /\ UNCHANGED <<mode, results_file, attendance_file, profiles, id_to_name,
                   match_log, students, record_vars, profile_vars,
                   side_vars>>

\* match_students, Step 1: one results group
Step1Group ==
    /\ pc = "step1" /\ todo # <<>>
    /\ LET group == Head(todo)
           sid == str_upper(str_strip(group.key))
       IN  /\ id_to_name' = dict_set(id_to_name, sid, group.rows[1].student_name)
           /\ profiles' = dict_set(profiles, sid, results_profile(group))
    /\ IF Tail(todo) = <<>>
       THEN pc' = "step2" /\ todo' = groupby(attendance_df)
       ELSE pc' = pc /\ todo' = Tail(todo)
    /\ UNCHANGED <<mode, results_file, attendance_file, results_df, attendance_df,
                   match_log, students, record_vars, profile_vars,
                   side_vars>>

\* match_students, Step 2: one attendance group
Step2Group ==
    /\ pc = "step2" /\ todo # <<>>
    /\ LET group == Head(todo)
           sid == str_upper(str_strip(group.key))
           name == group.rows[1].student_name
           r == resolve(profiles, id_to_name, sid, name)
           registry == IF r.by = "new"
                       THEN dict_set(profiles, sid, StudentProfile(sid, name))
                       ELSE profiles
           matched_profile == dict_get(registry, r.target)
       IN  /\ profiles' = dict_set(registry, r.target,
                                   append_attendances(matched_profile, group.rows, 1))
           /\ match_log' = Append(match_log,
                              [sid |-> sid, name |-> name, by |-> r.by,
                               target |-> r.target, best_match_id |-> r.best[1],
                               best_score |-> r.best[2]])
    /\ todo' = Tail(todo)
    /\ pc' = IF Tail(todo) = <<>> THEN "step3" ELSE pc
    /\ UNCHANGED <<mode, results_file, attendance_file, results_df, attendance_df,
                   id_to_name, students, record_vars, profile_vars,
                   side_vars>>

\* match_students, Step 3 and the sorted return
Step3 ==
    /\ pc = "step3"
    /\ students' = finish(profiles)
    /\ pc' = "done"
    /\ UNCHANGED <<mode, results_file, attendance_file, results_df, attendance_df,
                   profiles, id_to_name, todo, match_log, record_vars, profile_vars,
                   side_vars>>

\* build_attendance_only: one attendance group
AttendanceOnlyGroup ==
    /\ pc = "attendance_only" /\ todo # <<>>
    /\ LET group == Head(todo)
           sid == str_upper(str_strip(group.key))
       IN  profiles' = dict_set(profiles, sid, attendance_profile(group))
    /\ todo' = Tail(todo)
    /\ pc' = IF Tail(todo) = <<>> THEN "attendance_return" ELSE pc
    /\ UNCHANGED <<mode, results_file, attendance_file, results_df, attendance_df,
                   id_to_name, match_log, students, record_vars, profile_vars,
                   side_vars>>

\* build_attendance_only: analytics and the sorted return
AttendanceOnlyReturn ==
    /\ pc = "attendance_return"
    /\ students' = finish(profiles)
    /\ pc' = "done"
    /\ UNCHANGED <<mode, results_file, attendance_file, results_df, attendance_df,
                   profiles, id_to_name, todo, match_log, record_vars, profile_vars,
                   side_vars>>

\* build_results_only: one results group
ResultsOnlyGroup ==
    /\ pc = "results_only" /\ todo # <<>>
    /\ LET group == Head(todo)
           sid == str_upper(str_strip(group.key))
       IN  profiles' = dict_set(profiles, sid, results_profile(group))
    /\ todo' = Tail(todo)
    /\ pc' = IF Tail(todo) = <<>> THEN "results_return" ELSE pc
    /\ UNCHANGED <<mode, results_file, attendance_file, results_df, attendance_df,
                   id_to_name, match_log, students, record_vars, profile_vars,
                   side_vars>>

\* build_results_only: analytics and the sorted return
ResultsOnlyReturn ==
    /\ pc = "results_return"
    /\ students' = finish(profiles)
    /\ pc' = "done"
    /\ UNCHANGED <<mode, results_file, attendance_file, results_df, attendance_df,
                   profiles, id_to_name, todo, match_log, record_vars, profile_vars,
                   side_vars>>

Next ==
    \/ Parse
    \/ Step1Group
    \/ Step2Group
    \/ Step3
    \/ AttendanceOnlyGroup
    \/ AttendanceOnlyReturn
    \/ ResultsOnlyGroup
    \/ ResultsOnlyReturn

Spec == Init /\ [][Next]_vars

-----------------------------------------------------------------------------
(* SpecView: get_student_detail reads the derived properties of a profile  *)
(* that a builder returned and analyze_files stored.                       *)

\* all sequences over S of length at most n
SeqsUpTo(S, n) == UNION {[1..k -> S] : k \in 0..n}

ViewResultRows ==
    {[subject_code |-> StrCell(<<>>), subject_name |-> StrCell(n),
      grade |-> g, credits |-> NumCell(3)] :
        n \in SubjectNames, g \in {StrCell(<<"O">>), StrCell(<<" ","f">>)}}
ViewAttendanceRows ==
    {[subject_code |-> StrCell(<<>>), subject_name |-> StrCell(n),
      classes_held |-> NumCell(4), classes_attended |-> a] :
        n \in SubjectNames, a \in AttendedCells}

\* a profile as a builder returns it: rows appended, then compute_analytics
built_profile(rrows, arows) ==
    compute_analytics(
        append_attendances(
            append_results(StudentProfile(<<"A","1">>, <<"R","a">>), rrows, 1),
            arows, 1))

ViewInit ==
    /\ \E rrows \in SeqsUpTo(ViewResultRows, MaxRecs),
          arows \in SeqsUpTo(ViewAttendanceRows, MaxRecs) :
          detail_of = built_profile(rrows, arows)
    /\ detail = <<>>
    /\ footer = <<>>
    /\ RecordIdle /\ ProfileIdle /\ RunIdle /\ ParseIdle /\ ScalarIdle /\ CacheIdle /\ SheetIdle

\* get_student_detail: the two derived entries of the response
GetStudentDetail ==
    /\ detail = <<>>
    /\ detail' = [needs_counseling |-> needs_counseling(detail_of),
                  concern_reasons |-> concern_reasons(detail_of)]
    /\ UNCHANGED <<detail_of, footer, record_vars, profile_vars, run_vars,
                   parse_vars, scalar_vars, cache_vars, sheet_vars>>

\* reading the footer_message property of the profile
FooterMessage ==
    /\ footer = <<>>
    /\ footer' = <<footer_message(detail_of)>>
    /\ UNCHANGED <<detail_of, detail, record_vars, profile_vars, run_vars,
                   parse_vars, scalar_vars, cache_vars, sheet_vars>>

ViewNext == GetStudentDetail \/ FooterMessage
SpecView == ViewInit /\ [][ViewNext]_vars

-----------------------------------------------------------------------------
(* services/file_parser.py: from an uploaded file to its mandatory columns. *)

\* the header cells of an uploaded table hold at most MaxCols columns
MaxCols == 3

ALLOWED_EXTENSIONS == {<<".","c","s","v">>, <<".","x","l","s","x">>, <<".","x","l","s">>}

IsSeparator(c) == c \in Whitespace \cup {"-"}
IsWordChar(c) ==
    IsCased(c) \/ c \in {"0","1","2","3","4","5","6","7","8","9","_"}
RECURSIVE concat(_)
concat(parts) == IF parts = <<>> THEN <<>> ELSE Head(parts) \o concat(Tail(parts))
\* .str.replace(r"[\s\-]+", "_", regex=True): a run of separators becomes one "_"
replace_separators(s) ==
    concat([i \in DOMAIN s |->
              IF ~IsSeparator(s[i]) THEN <<s[i]>>
              ELSE IF i > 1 /\ IsSeparator(s[i - 1]) THEN <<>> ELSE <<"_">>])
\* .str.replace(r"[^\w]", "", regex=True)
remove_nonword(s) ==
    concat([i \in DOMAIN s |-> IF IsWordChar(s[i]) THEN <<s[i]>> ELSE <<>>])
\* _normalize_columns
_normalize_columns(columns) ==
    [i \in DOMAIN columns |->
        remove_nonword(replace_separators(str_lower(str_strip(columns[i]))))]

\* "k in col" for two str
Contains(col, k) ==
    \E i \in 0..(Len(col) - Len(k)) : SubSeq(col, i + 1, i + Len(k)) = k
InList(x, xs) == \E i \in DOMAIN xs : xs[i] = x
MinOf(S) == CHOOSE i \in S : \A j \in S : i <= j

IdCandidates ==
    <<<<"s","t","u","d","e","n","t","_","i","d">>,
      <<"s","t","u","d","e","n","t","i","d">>,
      <<"s","i","d">>,
      <<"r","o","l","l","_","n","o">>,
      <<"r","o","l","l","n","o">>,
      <<"r","o","l","l","_","n","u","m","b","e","r">>,
      <<"r","o","l","l","n","u","m","b","e","r">>,
      <<"i","d">>,
      <<"r","e","g","_","n","o">>,
      <<"r","e","g","n","o">>,
      <<"r","e","g","i","s","t","r","a","t","i","o","n","_","n","o">>,
      <<"r","e","g","i","s","t","r","a","t","i","o","n","n","o">>,
      <<"h","t","n","o">>,
      <<"h","a","l","l","_","t","i","c","k","e","t","_","n","o">>>>
IdKeywords == <<<<"i","d">>, <<"r","o","l","l">>, <<"r","e","g">>, <<"h","t","n","o">>>>
NameCandidates ==
    <<<<"s","t","u","d","e","n","t","_","n","a","m","e">>,
      <<"s","t","u","d","e","n","t","n","a","m","e">>,
      <<"n","a","m","e">>,
      <<"f","u","l","l","_","n","a","m","e">>,
      <<"f","u","l","l","n","a","m","e">>,
      <<"s","t","u","d","e","n","t","_","f","u","l","l","_","n","a","m","e">>>>
NameKeywords == <<<<"n","a","m","e">>>>

FileParserError(message, columns) ==
    [kind |-> "FileParserError", message |-> message, columns |-> columns]
Found(col) == [kind |-> "ok", col |-> col]

\* A plausible slip: the first column is taken when nothing matches.
detect_or_first(columns, candidates, keywords, message) ==
    LET exact == {i \in DOMAIN columns : InList(columns[i], candidates)}
        loose == {i \in DOMAIN columns :
                     \E k \in DOMAIN keywords : Contains(columns[i], keywords[k])}
    IN  IF exact # {} THEN Found(columns[MinOf(exact)])
        ELSE IF loose # {} THEN Found(columns[MinOf(loose)])
        ELSE Found(columns[1])

\* the two loops "for col in df.columns" of _detect_id_column and
\* _detect_name_column, and the raise after them
detect(columns, candidates, keywords, message) ==
    LET exact == {i \in DOMAIN columns : InList(columns[i], candidates)}
        loose == {i \in DOMAIN columns :
                     \E k \in DOMAIN keywords : Contains(columns[i], keywords[k])}
    IN  IF exact # {} THEN Found(columns[MinOf(exact)])
        ELSE IF loose # {} THEN Found(columns[MinOf(loose)])
        ELSE FileParserError(message, columns)

_detect_id_column(columns) ==
    detect(columns, IdCandidates, IdKeywords, "Could not detect Student ID column")
_detect_name_column(columns) ==
    detect(columns, NameCandidates, NameKeywords, "Could not detect Student Name column")

\* parse_file: the DataFrame's columns, or the FileParserError it raises
parse_file(file) ==
    IF str_lower(file.suffix) \notin ALLOWED_EXTENSIONS
    THEN FileParserError("Unsupported file format", <<>>)
    ELSE IF ~file.decodable
    THEN FileParserError("Failed to read file", <<>>)
    ELSE IF file.n_rows = 0 \/ file.columns = <<>>
    THEN FileParserError("File is empty", <<>>)
    ELSE [kind |-> "ok", columns |-> _normalize_columns(file.columns)]

-----------------------------------------------------------------------------
(* SpecParse: one uploaded file from the request to its mandatory columns. *)

Suffixes == {<<".","c","s","v">>, <<".","X","L","S">>, <<".","p","d","f">>, <<>>}
HeaderCells ==
    {<<"I","D">>,
     <<"S","t","u","d","e","n","t"," ","I","D">>,
     <<"P","a","i","d">>,
     <<"N","a","m","e"," ">>,
     <<"S","t","u","d","e","n","t"," ","N","a","m","e">>,
     <<"N","i","c","k","n","a","m","e">>,
     <<"G","r","a","d","e">>,
     <<"R","e","g","-","N","o",".">>}
\* header rows: no cell twice
HeaderRows ==
    {h \in SeqsUpTo(HeaderCells, MaxCols) : \A i, j \in DOMAIN h : i # j => h[i] # h[j]}

ParseInit ==
    /\ upload \in [suffix : Suffixes, decodable : BOOLEAN,
                   columns : HeaderRows, n_rows : 0..1]
    /\ df_columns = <<>> /\ id_col = <<>> /\ name_col = <<>>
    /\ parse_error = <<>>
    /\ parse_pc = "validate"
    /\ RecordIdle /\ ProfileIdle /\ RunIdle /\ ViewIdle /\ ScalarIdle /\ CacheIdle /\ SheetIdle

\* analyze_files, "Validate file extensions"
ValidateExtension ==
    /\ parse_pc = "validate"
    /\ IF str_lower(upload.suffix) \notin ALLOWED_EXTENSIONS
       THEN /\ parse_error' = [kind |-> "HTTPException", message |-> "must be CSV or Excel",
                               columns |-> <<>>]
            /\ parse_pc' = "aborted"
       ELSE /\ parse_pc' = "parse_file"
            /\ UNCHANGED parse_error
    /\ UNCHANGED <<upload, df_columns, id_col, name_col,
                   record_vars, profile_vars, run_vars, view_vars, scalar_vars,
                   cache_vars, sheet_vars>>

\* parse_results_file / parse_attendance_file: df = parse_file(file_path)
ParseFile ==
    /\ parse_pc = "parse_file"
    /\ LET df == parse_file(upload)
       IN  IF df.kind = "ok"
           THEN /\ df_columns' = df.columns
                /\ parse_pc' = "detect_id"
                /\ UNCHANGED parse_error
           ELSE /\ parse_error' = df
                /\ parse_pc' = "aborted"
                /\ UNCHANGED df_columns
    /\ UNCHANGED <<upload, id_col, name_col,
                   record_vars, profile_vars, run_vars, view_vars, scalar_vars,
                   cache_vars, sheet_vars>>

\* id_col = _detect_id_column(df)
DetectIdColumn ==
    /\ parse_pc = "detect_id"
    /\ LET r == _detect_id_column(df_columns)
       IN  IF r.kind = "ok"
           THEN /\ id_col' = r.col
                /\ parse_pc' = "detect_name"
                /\ UNCHANGED parse_error
           ELSE /\ parse_error' = r
                /\ parse_pc' = "aborted"
                /\ UNCHANGED id_col
    /\ UNCHANGED <<upload, df_columns, name_col,
                   record_vars, profile_vars, run_vars, view_vars, scalar_vars,
                   cache_vars, sheet_vars>>

\* name_col = _detect_name_column(df)
DetectNameColumn ==
    /\ parse_pc = "detect_name"
    /\ LET r == _detect_name_column(df_columns)
       IN  IF r.kind = "ok"
           THEN /\ name_col' = r.col
                /\ parse_pc' = "parsed"
                /\ UNCHANGED parse_error
           ELSE /\ parse_error' = r
                /\ parse_pc' = "aborted"
                /\ UNCHANGED name_col
    /\ UNCHANGED <<upload, df_columns, id_col,
                   record_vars, profile_vars, run_vars, view_vars, scalar_vars,
                   cache_vars, sheet_vars>>

ParseNext ==
    \/ ValidateExtension
    \/ ParseFile
    \/ DetectIdColumn
    \/ DetectNameColumn
SpecParse == ParseInit /\ [][ParseNext]_vars

-----------------------------------------------------------------------------
(* services/student_matcher.py: the "Extract optional fields" loops.       *)

IsCounselorColumn(col) ==
    Contains(col, <<"c","o","u","n","s","e","l","o","r">>) \/ Contains(col, <<"c","o","u","n","s","e","l","l","o","r">>)
    \/ Contains(col, <<"m","e","n","t","o","r">>)
IsBranchColumn(col) ==
    Contains(col, <<"b","r","a","n","c","h">>) \/ Contains(col, <<"d","e","p","a","r","t","m","e","n","t">>)
    \/ Contains(col, <<"d","e","p","t">>)
IsPhoneColumn(col) == Contains(col, <<"p","h","o","n","e">>) \/ Contains(col, <<"m","o","b","i","l","e">>)

\* the field the if/elif chain of match_students Step 1 and of
\* build_results_only assigns for a column; "" when no branch is taken
results_field(col) ==
    IF Contains(col, <<"s","e","c","t","i","o","n">>) THEN "section"
    ELSE IF Contains(col, <<"y","e","a","r">>) THEN "year"
    ELSE IF col \in {<<"s","e","m","e","s","t","e","r">>, <<"s","e","m">>} THEN "semester"
    ELSE IF IsBranchColumn(col) THEN "branch"
    ELSE IF Contains(col, <<"e","m","a","i","l">>) THEN "email"
    ELSE IF IsPhoneColumn(col) THEN "phone"
    ELSE IF IsCounselorColumn(col)
         THEN IF Contains(col, <<"i","d">>) THEN "counselor_id"
              ELSE IF Contains(col, <<"e","m","a","i","l">>) THEN "counselor_email"
              ELSE IF IsPhoneColumn(col) THEN "counselor_phone"
              ELSE "counselor_name"
    ELSE ""

\* the same chain with "and not profile.<field>" in every test, as in
\* match_students Step 2 and in build_attendance_only
attendance_field(p, col) ==
    IF Contains(col, <<"s","e","c","t","i","o","n">>) /\ ~Truthy(p.section) THEN "section"
    ELSE IF Contains(col, <<"y","e","a","r">>) /\ ~Truthy(p.year) THEN "year"
    ELSE IF col \in {<<"s","e","m","e","s","t","e","r">>, <<"s","e","m">>} /\ ~Truthy(p.semester) THEN "semester"
    ELSE IF IsBranchColumn(col) /\ ~Truthy(p.branch) THEN "branch"
    ELSE IF Contains(col, <<"e","m","a","i","l">>) /\ ~Truthy(p.email) THEN "email"
    ELSE IF IsPhoneColumn(col) /\ ~Truthy(p.phone) THEN "phone"
    ELSE IF IsCounselorColumn(col)
         THEN IF Contains(col, <<"i","d">>) /\ ~Truthy(p.counselor_id) THEN "counselor_id"
              ELSE IF Contains(col, <<"e","m","a","i","l">>) /\ ~Truthy(p.counselor_email) THEN "counselor_email"
              ELSE IF IsPhoneColumn(col) /\ ~Truthy(p.counselor_phone) THEN "counselor_phone"
              ELSE IF ~Truthy(p.counselor_name) THEN "counselor_name"
              ELSE ""
    ELSE ""

\* str(group[col].iloc[0]).strip()
first_cell_text(group, col) == str_strip(py_str(group.rows[1][col]))

\* one iteration of "for col in group.columns" in Step 1 / build_results_only
results_column(p, group, col) ==
    IF results_field(col) = "" THEN p
    ELSE [p EXCEPT ![results_field(col)] = first_cell_text(group, col)]

\* one iteration of "for col in group.columns" in Step 2 / build_attendance_only
attendance_column(p, group, col) ==
    IF attendance_field(p, col) = "" THEN p
    ELSE [p EXCEPT ![attendance_field(p, col)] = first_cell_text(group, col)]

-----------------------------------------------------------------------------
(* SpecFields: the optional fields of one profile, column by column; in    *)
(* mode "both" the attendance group has the identifier of the results group. *)

OptionalColumns ==
    {<<"s","e","c","t","i","o","n">>,
     <<"s","u","b","_","s","e","c","t","i","o","n">>,
     <<"e","m","a","i","l">>,
     <<"c","o","u","n","s","e","l","o","r","_","e","m","a","i","l">>,
     <<"c","o","u","n","s","e","l","o","r","_","i","d">>}
ColumnLists ==
    {h \in SeqsUpTo(OptionalColumns, MaxCols) : \A i, j \in DOMAIN h : i # j => h[i] # h[j]}

\* the cell of a row: blank, or a text telling its source, row and column
FieldCell(src, row, col, blank) ==
    IF blank THEN BlankCell ELSE StrCell(<<src, Digits[row]>> \o col)
\* a group of n_rows rows over the columns; the cells of its first row are
\* blank when blank_first
FieldGroup(src, columns, n_rows, blank_first) ==
    [columns |-> columns,
     rows |-> [r \in 1..n_rows |->
                 [c \in {columns[i] : i \in DOMAIN columns} |->
                     FieldCell(src, r, c, blank_first /\ r = 1)]]]
NoGroup == [columns |-> <<>>, rows |-> <<>>]

FieldsInit ==
    /\ \E m \in {"both", "results", "attendance"},
          rc \in ColumnLists, ac \in ColumnLists,
          rn \in 1..2, an \in 1..2, rb \in BOOLEAN, ab \in BOOLEAN :
          /\ Len(rc) + Len(ac) <= MaxCols
          /\ m = "results" => (ac = <<>> /\ an = 1 /\ ~ab)
          /\ m = "attendance" => (rc = <<>> /\ rn = 1 /\ ~rb)
          /\ scalar_in = [mode |-> m,
                          results |-> IF m = "attendance" THEN NoGroup
                                      ELSE FieldGroup("r", rc, rn, rb),
                          attendance |-> IF m = "results" THEN NoGroup
                                         ELSE FieldGroup("a", ac, an, ab)]
          /\ scalar_pc = IF m = "attendance" THEN "attendance" ELSE "results"
    /\ scalar_profile = StudentProfile(<<"A","1">>, <<"R","a">>)
    /\ scalar_idx = 1
    /\ RecordIdle /\ ProfileIdle /\ RunIdle /\ ViewIdle /\ ParseIdle /\ CacheIdle /\ SheetIdle

ResultsColumn ==
    /\ scalar_pc = "results"
    /\ scalar_idx <= Len(scalar_in.results.columns)
    /\ scalar_profile' = results_column(scalar_profile, scalar_in.results,
                                        scalar_in.results.columns[scalar_idx])
    /\ scalar_idx' = scalar_idx + 1
    /\ UNCHANGED <<scalar_in, scalar_pc,
                   record_vars, profile_vars, run_vars, view_vars, parse_vars,
                   cache_vars, sheet_vars>>

\* the loop over the results columns is over
ResultsColumnsDone ==
    /\ scalar_pc = "results"
    /\ scalar_idx > Len(scalar_in.results.columns)
    /\ scalar_pc' = IF scalar_in.mode = "both" THEN "attendance" ELSE "done"
    /\ scalar_idx' = 1
    /\ UNCHANGED <<scalar_in, scalar_profile,
                   record_vars, profile_vars, run_vars, view_vars, parse_vars,
                   cache_vars, sheet_vars>>

AttendanceColumn ==
    /\ scalar_pc = "attendance"
    /\ scalar_idx <= Len(scalar_in.attendance.columns)
    /\ scalar_profile' = attendance_column(scalar_profile, scalar_in.attendance,
                                           scalar_in.attendance.columns[scalar_idx])
    /\ scalar_idx' = scalar_idx + 1
    /\ UNCHANGED <<scalar_in, scalar_pc,
                   record_vars, profile_vars, run_vars, view_vars, parse_vars,
                   cache_vars, sheet_vars>>

\* the loop over the attendance columns is over
AttendanceColumnsDone ==
    /\ scalar_pc = "attendance"
    /\ scalar_idx > Len(scalar_in.attendance.columns)
    /\ scalar_pc' = "done"
    /\ scalar_idx' = 1
    /\ UNCHANGED <<scalar_in, scalar_profile,
                   record_vars, profile_vars, run_vars, view_vars, parse_vars,
                   cache_vars, sheet_vars>>

FieldsNext ==
    \/ ResultsColumn
    \/ ResultsColumnsDone
    \/ AttendanceColumn
    \/ AttendanceColumnsDone
SpecFields == FieldsInit /\ [][FieldsNext]_vars

-----------------------------------------------------------------------------
(* SpecCache: concurrent POST /api/analyze requests and lookups on one     *)
(* event loop.  A coroutine is left only at an await; analyze_files awaits *)
(* the reads of the uploads and nothing from "Parse & match" to the store. *)

\* number of concurrent analyze requests
MaxRequests == 2

CacheIds == {<<"A","1">>, <<"B","2">>}
LookupPaths == {<<"a","1"," ">>, <<"B","2">>}

\* the profiles a builder returns for the upload of session r: built from
\* that upload alone, sorted by student_id
built_students(r, ids) ==
    LET sorted == sorted_strings(ids)
    IN  [i \in DOMAIN sorted |->
            [student_id |-> sorted[i], results_of |-> r, attendance_of |-> r]]

\* A plausible slip: an identifier already in the store keeps its profile.
RECURSIVE store_keeps_first(_, _, _)
store_keeps_first(latest, profs, i) ==
    IF i > Len(profs) THEN latest
    ELSE store_keeps_first(
             IF has_key(latest, profs[i].student_id) THEN latest
             ELSE dict_set(latest, profs[i].student_id, profs[i]),
             profs, i + 1)

\* "for s in students: _latest_students[s.student_id] = s"
RECURSIVE store(_, _, _)
store(latest, profs, i) ==
    IF i > Len(profs) THEN latest
    ELSE store(dict_set(latest, profs[i].student_id, profs[i]),
               profs, i + 1)

\* _latest_students.get(student_id) after student_id.strip().upper()
lookup(latest, path) ==
    LET student_id == str_upper(str_strip(path))
    IN  IF has_key(latest, student_id) THEN dict_get(latest, student_id) ELSE None

\* what is wrong with an upload: nothing, a suffix outside ALLOWED_EXTENSIONS,
\* more than MAX_FILE_SIZE bytes, a table the parser rejects, rows on which
\* the builder raises
Faults == {"", "extension", "oversize", "parse", "match"}

\* analyze_files from the return of the read to the end of "Parse & match":
\* the HTTPException raised, or the list of the builder
outcome(r, req) ==
    IF req.fault = "oversize"
    THEN [raised |-> "400 too large", students |-> <<>>]
    ELSE IF req.fault = "parse" \/ req.ids = {}
    THEN [raised |-> "400 FileParserError", students |-> <<>>]
    ELSE IF req.fault = "match"
    THEN [raised |-> "500 Error processing files", students |-> <<>>]
    ELSE [raised |-> "", students |-> built_students(r, req.ids)]

\* A plausible slip: the store block runs in a finally clause, raised or not.
analyze_store_finally(stores, r, out) ==
    [sessions |-> dict_set(stores.sessions, r, out.students),
     latest |-> store(stores.latest, out.students, 1)]

\* "Store in session", reached only when nothing was raised before it
analyze_store(stores, r, out) ==
    IF out.raised # "" THEN stores
    ELSE [sessions |-> dict_set(stores.sessions, r, out.students),
          latest |-> store(stores.latest, out.students, 1)]

CacheInit ==
    /\ requests \in [1..MaxRequests ->
                        [pc : {"start"}, ids : SUBSET CacheIds, fault : Faults]]
    /\ _sessions = <<>>
    /\ _latest_students = <<>>
    /\ store_order = <<>>
    /\ found = <<>>
    /\ RecordIdle /\ ProfileIdle /\ RunIdle /\ ViewIdle /\ ParseIdle /\ ScalarIdle /\ SheetIdle

\* analyze_files up to "await results_file.read()" / "await attendance_file.read()":
\* a suffix that is not allowed raises before any read
ReadUploads(r) ==
    /\ requests[r].pc = "start"
    /\ requests' = [requests EXCEPT ![r].pc =
                        IF requests[r].fault = "extension" THEN "failed" ELSE "read"]
    /\ UNCHANGED <<_sessions, _latest_students, store_order, found,
                   record_vars, profile_vars, run_vars, view_vars, parse_vars,
                   scalar_vars, sheet_vars>>

\* analyze_files from the return of the read over the size test and "Parse &
\* match" to "Store in session": an oversize upload, an upload without rows or
\* with a table the parser rejects, and a builder that raises end the request;
\* any other upload is built and stored
ParseMatchStore(r) ==
    /\ requests[r].pc = "read"
    /\ LET out == outcome(r, requests[r])
           stores == analyze_store([sessions |-> _sessions, latest |-> _latest_students],
                                   r, out)
       IN  /\ _sessions' = stores.sessions
           /\ _latest_students' = stores.latest
           /\ store_order' = IF out.raised # "" THEN store_order
                              ELSE Append(store_order, r)
           /\ requests' = [requests EXCEPT ![r].pc =
                               IF out.raised # "" THEN "failed" ELSE "stored"]
    /\ UNCHANGED <<found, record_vars, profile_vars, run_vars, view_vars,
                   parse_vars, scalar_vars, sheet_vars>>

\* get_student_detail / download_pdf / download_docx: the lookup
LookupStudent(path) ==
    /\ found' = [path |-> path, student |-> lookup(_latest_students, path)]
    /\ found' # found
    /\ UNCHANGED <<requests, _sessions, _latest_students, store_order,
                   record_vars, profile_vars, run_vars, view_vars, parse_vars,
                   scalar_vars, sheet_vars>>

CacheNext ==
    \/ \E r \in 1..MaxRequests : ReadUploads(r)
    \/ \E r \in 1..MaxRequests : ParseMatchStore(r)
    \/ \E path \in LookupPaths : LookupStudent(path)
SpecCache == CacheInit /\ [][CacheNext]_vars

-----------------------------------------------------------------------------
(* SpecSheet: the subject rows of one student's group in the results file  *)
(* and in the attendance file, handed to each of the three builders.       *)

\* cells of the subject-name column: a name, whitespace, a blank cell
SheetNameCells == {StrCell(<<"M">>), StrCell(<<" ">>), BlankCell}
\* cells of the grade column: a pass grade, a failing grade, whitespace, blank
SheetGradeCells == {StrCell(<<"O">>), StrCell(<<"f">>), StrCell(<<" ">>), BlankCell}
SheetCreditCells == {NumCell(3), NumCell(-3), TextCell, BlankCell}
SheetHeldCells == {NumCell(0), NumCell(4), NumCell(-4), TextCell, InfCell}
SheetAttendedCells == {NumCell(3), BlankCell, InfCell}
\* percentage cells count tenths: 75.5, -0.5, blank, text, infinite
SheetPctCells == {NumCell(755), NumCell(-5), BlankCell, TextCell, InfCell}

\* the count and percentage columns an attendance file may carry
SheetColumns ==
    {{"classes_held", "classes_attended"},
     {"classes_held", "classes_attended", "attendance_percentage"},
     {"classes_held", "attendance_percentage"},
     {"attendance_percentage"},
     {}}

SheetResultRow(n, g, c) ==
    [subject_code |-> StrCell(<<>>), subject_name |-> n, grade |-> g, credits |-> c]
\* every name with a plain grade, every grade and every credits cell with a
\* plain name
SheetResultRows ==
    {SheetResultRow(n, StrCell(<<"O">>), NumCell(3)) : n \in SheetNameCells}
    \cup {SheetResultRow(StrCell(<<"M">>), g, NumCell(3)) : g \in SheetGradeCells}
    \cup {SheetResultRow(StrCell(<<"M">>), StrCell(<<"O">>), c) : c \in SheetCreditCells}

\* an attendance row of a file with the columns cols
SheetAttendanceRow(cols, n, h, a, p) ==
    [f \in {"subject_code", "subject_name"} \cup cols |->
        CASE f = "subject_code" -> StrCell(<<>>)
          [] f = "subject_name" -> n
          [] f = "classes_held" -> h
          [] f = "classes_attended" -> a
          [] f = "attendance_percentage" -> p]
\* every name with plain counts, every combination of count cells with a
\* plain name; the percentage cell varies where the counts are not both there
SheetAttendanceRows(cols) ==
    {SheetAttendanceRow(cols, n, NumCell(4), NumCell(3), NumCell(755)) :
        n \in SheetNameCells}
    \cup {SheetAttendanceRow(cols, StrCell(<<"M">>), h, a, p) :
            h \in IF {"classes_held", "classes_attended"} \subseteq cols
                  THEN SheetHeldCells ELSE {NumCell(4)},
            a \in SheetAttendedCells,
            p \in IF {"classes_held", "classes_attended"} \subseteq cols
                  THEN {NumCell(755)} ELSE SheetPctCells}

SheetInit ==
    /\ \E cols \in SheetColumns :
       \E rs \in SeqsUpTo(SheetResultRows, MaxRecs) :
       \E as \in SeqsUpTo(SheetAttendanceRows(cols), MaxRecs - Len(rs)) :
          /\ Len(rs) + Len(as) > 0
          /\ sheet = [columns |-> cols, results |-> rs, attendance |-> as]
    /\ built = <<>>
    /\ sheet_pc = "start"
    /\ RecordIdle /\ ProfileIdle /\ RunIdle
    /\ ViewIdle /\ ParseIdle /\ ScalarIdle /\ CacheIdle

\* the exception that leaves an attendance row loop, "" when the loop ends;
\* counts holds <<classes_held, classes_attended, exception>> of every row
loop_raises(counts) ==
    IF \E i \in DOMAIN counts : counts[i][3] # "" THEN "OverflowError" ELSE ""

\* what a builder hands back: the list it returns, or the exception
returned(by, raised, p) ==
    [by |-> by, raised |-> raised,
     students |-> IF raised = "" THEN <<compute_analytics(p)>> ELSE <<>>]

\* match_students for the student: Step 1 builds the profile from the results
\* rows, Step 2 finds it by identifier (or creates it when the results file
\* has no row of the student), Step 3 computes the analytics
MatchStudentsSheet ==
    /\ sheet_pc = "start"
    /\ built' = returned("match_students",
                    loop_raises([i \in DOMAIN sheet.attendance |->
                                    held_attended_match(sheet.attendance[i])]),
                    append_attendances(
                        append_results(StudentProfile(<<"A","1">>, <<"R","a","v","i">>),
                                       sheet.results, 1),
                        sheet.attendance, 1))
    /\ sheet_pc' = "done"
    /\ UNCHANGED <<sheet, record_vars, profile_vars, run_vars, view_vars,
                   parse_vars, scalar_vars, cache_vars>>

\* build_attendance_only for the attendance rows of the student
BuildAttendanceOnlySheet ==
    /\ sheet_pc = "start" /\ sheet.attendance # <<>>
    /\ built' = returned("build_attendance_only",
                    loop_raises([i \in DOMAIN sheet.attendance |->
                                    held_attended_only(sheet.attendance[i])]),
                    append_attendances_only(
                        StudentProfile(<<"A","1">>, <<"R","a","v","i">>),
                        sheet.attendance, 1))
    /\ sheet_pc' = "done"
    /\ UNCHANGED <<sheet, record_vars, profile_vars, run_vars, view_vars,
                   parse_vars, scalar_vars, cache_vars>>

\* build_results_only for the results rows of the student
BuildResultsOnlySheet ==
    /\ sheet_pc = "start" /\ sheet.results # <<>>
    /\ built' = returned("build_results_only", "",
                    append_results(StudentProfile(<<"A","1">>, <<"R","a","v","i">>),
                                   sheet.results, 1))
    /\ sheet_pc' = "done"
    /\ UNCHANGED <<sheet, record_vars, profile_vars, run_vars, view_vars,
                   parse_vars, scalar_vars, cache_vars>>

SheetNext == MatchStudentsSheet \/ BuildAttendanceOnlySheet \/ BuildResultsOnlySheet
SpecSheet == SheetInit /\ [][SheetNext]_vars

-----------------------------------------------------------------------------
(* Claims about the dataclasses (SpecRecord).                              *)

Abs(n) == IF n < 0 THEN -n ELSE n
\* x hundredths is a nearest hundredth of 100 * n / d
NearestHundredth(x, n, d) == 2 * Abs(x * d - 10000 * n) <= Abs(d)

\* C4: a constructed SubjectResult has is_backlog true exactly when its grade
\* argument, trimmed and upper-cased, is one of F, FA, AB, FAIL, I, W; it is
\* false for O, A+, A, B+, B, C, P; the is_backlog argument has no influence.
C4_BacklogIffFailedGrade ==
    r_obj # <<>> =>
        LET canon == str_upper(str_strip(r_args.grade))
        IN  /\ r_obj[1].is_backlog <=> canon \in FAILED_GRADES
            /\ canon \in PassGrades => ~r_obj[1].is_backlog
            /\ r_args.grade \in {<<" ","f"," ">>, <<"A","b","\t">>, <<"w">>}
                  => r_obj[1].is_backlog
            /\ r_args.grade \in {<<"a","+"," ">>, <<"o">>} => ~r_obj[1].is_backlog

\* a pass grade in lower case with trailing blank, constructed with
\* is_backlog=True, came out as no backlog
C4_Witness ==
    /\ r_obj # <<>>
    /\ r_args.grade = <<"a","+"," ">>
    /\ r_args.is_backlog
    /\ ~r_obj[1].is_backlog

\* C5: for classes_held > 0 the attendance_percentage of a constructed
\* SubjectAttendance is 100 * attended / held rounded to two decimals, status
\* is Red iff it is below 75.0, Yellow iff in [75.0, 80.0), Green iff at least
\* 80.0; exactly 75.0 is Yellow and exactly 80.0 is Green.
C5_PercentageAndBand ==
    (a_obj # <<>> /\ a_args.classes_held > 0) =>
        LET o == a_obj[1]
            h == a_args.classes_held
            a == a_args.classes_attended
            pct == o.attendance_percentage
        IN  /\ NearestHundredth(pct, a, h)
            /\ (o.status = "Red") <=> (pct < 7500)
            /\ (o.status = "Yellow") <=> (7500 <= pct /\ pct < 8000)
            /\ (o.status = "Green") <=> (pct >= 8000)
            /\ (4 * a = 3 * h) => (pct = 7500 /\ o.status = "Yellow")
            /\ (5 * a = 4 * h) => (pct = 8000 /\ o.status = "Green")

\* 3 classes of 4 attended: exactly 75.0, Yellow
C5_Witness ==
    /\ a_obj # <<>>
    /\ a_args.classes_held = 4 /\ a_args.classes_attended = 3
    /\ a_obj[1].attendance_percentage = 7500
    /\ a_obj[1].status = "Yellow"

-----------------------------------------------------------------------------
(* Claims about StudentProfile (SpecProfile).                              *)

\* the k-th smallest element of a set of indices
KthIndex(S, k) == CHOOSE i \in S : Cardinality({j \in S : j <= i}) = k
\* out lists the subject_name of exactly the xs[i] with i in S, in the order of xs
IsNamesOf(out, xs, S) ==
    /\ Len(out) = Cardinality(S)
    /\ \A k \in 1..Len(out) : out[k] = xs[KthIndex(S, k)].subject_name

AnalyticsJustRan == ppc = "final" /\ last_op = "compute_analytics"

\* C6: a cgpa read from the file is left alone, with its source, by every
\* later step: compute_cgpa and compute_analytics, called any number of times,
\* whatever previous_results holds.
C6_CsvCgpaUntouched ==
    [][profile.cgpa_source = "csv" =>
          (profile'.cgpa = profile.cgpa /\ profile'.cgpa_source = "csv")]_vars

\* cgpa 8.12 from the file survived two calls although the results alone
\* would give 10.0
C6_Witness ==
    /\ AnalyticsJustRan /\ n_calls >= 2
    /\ profile.cgpa_source = "csv" /\ profile.cgpa = Num(812)
    /\ \E i \in DOMAIN profile.previous_results :
          /\ profile.previous_results[i].grade = <<"O">>
          /\ profile.previous_results[i].credits = Num(3)

\* C7: when cgpa was not read from the file and previous_results is not empty,
\* compute_cgpa leaves cgpa = sum(grade_point * credits) / sum(credits), rounded
\* to two decimals, over exactly the results with credits > 0 and a grade of
\* the grade-point table; cgpa stays unset when that credit sum is 0.
C7_CgpaOverEligibleResults ==
    (ppc = "final" /\ profile.cgpa_source # "csv" /\ profile.previous_results # <<>>) =>
        LET rs == profile.previous_results
            eligible == {i \in DOMAIN rs :
                            /\ rs[i].credits.kind = "num" /\ rs[i].credits.v > 0
                            /\ rs[i].grade \in DOMAIN GRADE_POINT_MAP}
            credit_sum == py_sum([i \in DOMAIN rs |->
                              IF i \in eligible THEN rs[i].credits.v ELSE 0])
            points == py_sum([i \in DOMAIN rs |->
                              IF i \in eligible
                              THEN GRADE_POINT_MAP[rs[i].grade] * rs[i].credits.v
                              ELSE 0])
        IN  IF credit_sum > 0
            THEN /\ profile.cgpa.kind = "num"
                 /\ 2 * Abs(profile.cgpa.v * credit_sum - 100 * points) <= credit_sum
            ELSE profile.cgpa = None

\* C8: after compute_analytics, backlog_subjects lists the subject_name of
\* exactly the previous_results with is_backlog, in their order, duplicates
\* kept, and backlog_count is its length.
C8_BacklogSubjects ==
    AnalyticsJustRan =>
        LET rs == profile.previous_results
        IN  /\ IsNamesOf(profile.backlog_subjects, rs,
                         {i \in DOMAIN rs : rs[i].is_backlog})
            /\ profile.backlog_count = Len(profile.backlog_subjects)

\* the same subject failed twice is listed twice
C8_Witness ==
    /\ AnalyticsJustRan
    /\ profile.backlog_count = 2
    /\ profile.backlog_subjects = <<<<"M">>, <<"M">>>>

\* C9: after compute_analytics, has_low_attendance holds iff some attendance
\* record is Red, and low_attendance_subjects lists the subject_name of exactly
\* the Red or Yellow records, in record order.
C9_LowAttendance ==
    AnalyticsJustRan =>
        LET as == profile.attendance_records
        IN  /\ profile.has_low_attendance <=>
                  (\E i \in DOMAIN as : as[i].status = "Red")
            /\ IsNamesOf(profile.low_attendance_subjects, as,
                         {i \in DOMAIN as : as[i].status \in {"Red", "Yellow"}})

\* a Yellow record and a Green one: the Yellow subject is listed, the flag is off
C9_Witness ==
    /\ AnalyticsJustRan
    /\ ~profile.has_low_attendance
    /\ Len(profile.attendance_records) = 2
    /\ profile.attendance_records[1].status = "Green"
    /\ profile.attendance_records[2].status = "Yellow"
    /\ profile.low_attendance_subjects = <<profile.attendance_records[2].subject_name>>

TotalHeld(p) ==
    py_sum([i \in DOMAIN p.attendance_records |-> p.attendance_records[i].classes_held])
TotalAttended(p) ==
    py_sum([i \in DOMAIN p.attendance_records |-> p.attendance_records[i].classes_attended])

-----------------------------------------------------------------------------
(* Claims about the builders (Spec).                                       *)

\* an identifier cell of an uploaded file, trimmed and upper-cased
CanonId(raw) == str_upper(str_strip(raw))
CanonIds(file) == {CanonId(file[i].student_id) : i \in DOMAIN file}
\* the subject codes of the rows of an uploaded file whose identifier
\* canonicalises to id, in file order
RECURSIVE FileCodes(_, _)
FileCodes(file, id) ==
    IF file = <<>> THEN <<>>
    ELSE (IF CanonId(Head(file).student_id) = id
          THEN <<Head(file).subject_code.v>> ELSE <<>>)
         \o FileCodes(Tail(file), id)
\* the subject codes of a list of subject records
Codes(records) == [i \in DOMAIN records |-> records[i].subject_code]
\* xs occurs in ys as one contiguous block
IsBlockOf(xs, ys) ==
    \E k \in 0..(Len(ys) - Len(xs)) : SubSeq(ys, k + 1, k + Len(xs)) = xs
ProfilesWithId(id) == {k \in DOMAIN students : students[k].student_id = id}

\* C1: match_students returns, for every identifier that occurs (trimmed and
\* upper-cased) in both files, exactly one profile with that student_id; its
\* previous_results come from the results rows of that identifier and its
\* attendance_records hold the attendance rows of that identifier, whatever the
\* names in the two files are.
C1_SharedIdOneMergedProfile ==
    (pc = "done" /\ mode = "both") =>
        \A id \in CanonIds(results_file) \cap CanonIds(attendance_file) :
            /\ Cardinality(ProfilesWithId(id)) = 1
            /\ \A k \in ProfilesWithId(id) :
                  /\ Codes(students[k].previous_results) = FileCodes(results_file, id)
                  /\ IsBlockOf(FileCodes(attendance_file, id),
                               Codes(students[k].attendance_records))

\* a1 named "ra" in the results and "A1 " named "ra  v" in the attendance
\* (similarity 4/6) ended in one profile A1 holding rows of both
C1_Witness ==
    /\ pc = "done" /\ mode = "both"
    /\ \E i \in DOMAIN results_file :
          /\ results_file[i].student_id = <<"a","1">>
          /\ results_file[i].student_name = <<"r","a">>
    /\ \E j \in DOMAIN attendance_file :
          /\ attendance_file[j].student_id = <<"A","1"," ">>
          /\ attendance_file[j].student_name = <<"r","a"," "," ","v">>
    /\ \E k \in DOMAIN students :
          /\ students[k].student_id = <<"A","1">>
          /\ students[k].previous_results # <<>>
          /\ students[k].attendance_records # <<>>
    /\ Len(students) = 1

\* C2: in match_students an attendance group whose identifier is not in the
\* results is merged into an existing profile iff the greatest name similarity
\* over the candidates is at least 0.85, and otherwise gets a new profile keyed
\* by its identifier; when it is merged, no returned profile has its identifier.
C2_MergedIffScoreAtLeastThreshold ==
    \A n \in DOMAIN match_log :
        LET e == match_log[n]
            reaches == \E c \in DOMAIN id_to_name :
                          accepts(_name_similarity(e.name, id_to_name[c].val))
        IN  ~has_key(id_to_name, e.sid) =>
                /\ (e.by = "name") <=> reaches
                /\ (e.by = "new") <=> ~reaches
                /\ e.by = "name" => e.target # e.sid
                /\ (pc = "done" /\ e.by = "name") => ProfilesWithId(e.sid) = {}
                /\ (pc = "done" /\ e.by = "new") => ProfilesWithId(e.sid) # {}

\* the fields compute_analytics derives agree with the records of the profile
AnalyticsMatchRecords(p) ==
    /\ IsNamesOf(p.backlog_subjects, p.previous_results,
                 {i \in DOMAIN p.previous_results : p.previous_results[i].is_backlog})
    /\ p.backlog_count = Len(p.backlog_subjects)
    /\ p.has_low_attendance <=>
          (\E i \in DOMAIN p.attendance_records : p.attendance_records[i].status = "Red")
    /\ IsNamesOf(p.low_attendance_subjects, p.attendance_records,
                 {i \in DOMAIN p.attendance_records :
                     p.attendance_records[i].status \in {"Red", "Yellow"}})
    /\ IF TotalHeld(p) > 0
       THEN NearestHundredth(p.overall_attendance, TotalAttended(p), TotalHeld(p))
       ELSE p.overall_attendance = 0
    /\ (p.previous_results # <<>>) <=> (p.cgpa_source = "computed")

\* C3: each builder returns its profiles strictly ascending by student_id, so
\* no identifier twice, every row of every file is in a returned profile, and
\* every returned profile carries the analytics of all the records it holds.
C3_SortedUniqueAnalysed ==
    pc = "done" =>
        /\ \A i, j \in DOMAIN students :
              i < j => str_less(students[i].student_id, students[j].student_id)
        /\ \A i \in DOMAIN students : AnalyticsMatchRecords(students[i])
        /\ py_sum([i \in DOMAIN students |-> Len(students[i].previous_results)])
              = Len(results_df)
        /\ py_sum([i \in DOMAIN students |-> Len(students[i].attendance_records)])
              = Len(attendance_df)

\* match_students created B2 from the results and then A1 from the attendance
\* alone, and returned A1 before B2; B2 holds a backlog, A1 a Red subject
C3_Witness ==
    /\ pc = "done" /\ mode = "both"
    /\ Len(students) = 2
    /\ students[1].student_id = <<"A","1">>
    /\ students[2].student_id = <<"B","2">>
    /\ profiles[1].key = <<"B","2">>
    /\ students[2].backlog_count = 1
    /\ students[1].has_low_attendance
    /\ students[1].previous_results = <<>>

-----------------------------------------------------------------------------
(* Claims about the derived properties (SpecView).                         *)

\* C11: needs_counseling of a profile is true exactly when has_low_attendance
\* is true or backlog_count is greater than 0.
C11_NeedsCounseling ==
    detail # <<>> =>
        (detail.needs_counseling = TRUE) <=>
            ~(detail_of.has_low_attendance = FALSE /\ detail_of.backlog_count < 1)

\* a profile without a Red subject and with one backlog needs counseling
C11_Witness ==
    /\ detail # <<>>
    /\ ~detail_of.has_low_attendance
    /\ detail_of.backlog_count = 1
    /\ detail.needs_counseling

ClauseRank(kind) == CASE kind = "red" -> 1 [] kind = "yellow" -> 2 [] OTHER -> 3
HasClause(kind) ==
    \E i \in DOMAIN detail.concern_reasons : detail.concern_reasons[i].kind = kind
HasRecord(status) ==
    \E i \in DOMAIN detail_of.attendance_records :
        detail_of.attendance_records[i].status = status

\* C12: concern_reasons holds at most one statement of each kind, in the
\* order Red, Yellow, backlog; the Red statement is there iff some record is
\* Red, the Yellow one iff some record is Yellow, the backlog one iff
\* backlog_count > 0.
C12_ConcernOrder ==
    detail # <<>> =>
        /\ \A i, j \in DOMAIN detail.concern_reasons :
              i < j => ClauseRank(detail.concern_reasons[i].kind)
                         < ClauseRank(detail.concern_reasons[j].kind)
        /\ HasClause("red") <=> HasRecord("Red")
        /\ HasClause("yellow") <=> HasRecord("Yellow")
        /\ HasClause("backlog") <=> detail_of.backlog_count > 0

\* Red and backlog subjects and no Yellow one: the Red statement, then the
\* backlog statement
C12_Witness ==
    /\ detail # <<>>
    /\ HasRecord("Red") /\ ~HasRecord("Yellow") /\ detail_of.backlog_count > 0
    /\ Len(detail.concern_reasons) = 2
    /\ detail.concern_reasons[1].kind = "red"
    /\ detail.concern_reasons[2].kind = "backlog"

\* C28 as claimed: concern_reasons is non-empty iff needs_counseling is true,
\* and a profile whose footer_message is the positive statement has no Red
\* record, no Yellow record and no backlog.
C28_NarrativeIffCounseling ==
    /\ detail # <<>> =>
          ((detail.concern_reasons # <<>>) <=> detail.needs_counseling)
    /\ (footer # <<>> /\ footer[1].kind = "satisfactory") =>
          /\ \A i \in DOMAIN detail_of.attendance_records :
                detail_of.attendance_records[i].status = "Green"
          /\ detail_of.backlog_count = 0

\* C28: concern_reasons is non-empty iff needs_counseling is true or some
\* record is Yellow, and a profile whose footer_message is the positive
\* statement has no Red record and no backlog.
C28_NarrativeCoversCounseling ==
    /\ detail # <<>> =>
          ((detail.concern_reasons # <<>>)
              <=> (detail.needs_counseling
                   \/ \E i \in DOMAIN detail_of.attendance_records :
                         detail_of.attendance_records[i].status = "Yellow"))
    /\ (footer # <<>> /\ footer[1].kind = "satisfactory") =>
          /\ \A i \in DOMAIN detail_of.attendance_records :
                detail_of.attendance_records[i].status # "Red"
          /\ detail_of.backlog_count = 0
          /\ \A i \in DOMAIN detail_of.previous_results :
                ~detail_of.previous_results[i].is_backlog

\* a profile with one Yellow record and nothing else of concern: the Yellow
\* statement is listed, counseling is not needed, the footer is the positive
\* statement
C28_Witness ==
    /\ detail # <<>> /\ footer # <<>>
    /\ Len(detail_of.attendance_records) = 1
    /\ detail_of.attendance_records[1].status = "Yellow"
    /\ detail_of.backlog_count = 0
    /\ ~detail.needs_counseling
    /\ Len(detail.concern_reasons) = 1
    /\ detail.concern_reasons[1].kind = "yellow"
    /\ footer[1].kind = "satisfactory"

-----------------------------------------------------------------------------
(* Claims about the parser (SpecParse).                                    *)

\* no column is an alias of the role or contains one of its keywords
NoColumnFor(columns, candidates, keywords) ==
    \A i \in DOMAIN columns :
        /\ ~InList(columns[i], candidates)
        /\ \A k \in DOMAIN keywords : ~Contains(columns[i], keywords[k])
RequestEnded == parse_pc \in {"parsed", "aborted"}
BadSuffix == str_lower(upload.suffix) \notin ALLOWED_EXTENSIONS
NormalizedHeader == _normalize_columns(upload.columns)
MandatoryMissing ==
    \/ NoColumnFor(NormalizedHeader, IdCandidates, IdKeywords)
    \/ NoColumnFor(NormalizedHeader, NameCandidates, NameKeywords)

\* C13: the request ends with an error and without the mandatory columns, so
\* no builder runs, whenever the suffix is not an accepted one, the table has
\* no rows, or no column matches the identifier or the name role; when only the
\* last holds, the error lists the normalized column names of the table.
C13_WholeFileErrorsAbort ==
    RequestEnded =>
        /\ (BadSuffix \/ upload.n_rows = 0 \/ MandatoryMissing) =>
              /\ parse_pc = "aborted"
              /\ parse_error # <<>>
              /\ id_col = <<>> \/ name_col = <<>>
        /\ (~BadSuffix /\ upload.decodable /\ upload.n_rows > 0
               /\ upload.columns # <<>> /\ MandatoryMissing) =>
              /\ parse_error # <<>>
              /\ parse_error.kind = "FileParserError"
              /\ parse_error.columns = NormalizedHeader

\* a readable .csv with the header cells "Grade", "Reg-No." and one row: the
\* identifier column is reg_no, no column serves the name role, and the
\* error lists grade, reg_no
C13_Witness ==
    /\ parse_pc = "aborted"
    /\ upload.suffix = <<".","c","s","v">> /\ upload.decodable /\ upload.n_rows = 1
    /\ upload.columns = <<<<"G","r","a","d","e">>, <<"R","e","g","-","N","o",".">>>>
    /\ id_col = <<"r","e","g","_","n","o">>
    /\ parse_error # <<>>
    /\ parse_error.columns = <<<<"g","r","a","d","e">>, <<"r","e","g","_","n","o">>>>

\* the column the claim expects for a role: the alias earliest in the
\* candidate list that is a column, else the first column with a keyword
ByCandidateOrder(columns, candidates, keywords) ==
    LET present == {k \in DOMAIN candidates : InList(candidates[k], columns)}
        loose == {i \in DOMAIN columns :
                     \E k \in DOMAIN keywords : Contains(columns[i], keywords[k])}
    IN  IF present # {} THEN candidates[MinOf(present)] ELSE columns[MinOf(loose)]

\* C18: for a mandatory role the column chosen is the exact alias that comes
\* earliest in the candidate list, whatever the order of the columns in the
\* table; only when no column is an alias, the first column holding a keyword.
C18_AliasByCandidateOrder ==
    /\ id_col # <<>> =>
          id_col = ByCandidateOrder(df_columns, IdCandidates, IdKeywords)
    /\ name_col # <<>> =>
          name_col = ByCandidateOrder(df_columns, NameCandidates, NameKeywords)

-----------------------------------------------------------------------------
(* Claims about the optional fields (SpecFields).                          *)

ScalarFields ==
    {"section", "year", "semester", "branch", "email", "phone",
     "counselor_name", "counselor_id", "counselor_email", "counselor_phone"}

\* C14: once a scalar field of the profile holds a non-empty value, no later
\* column, row or source of the run changes it.
C14_FirstSetWins ==
    [][\A f \in ScalarFields :
          Truthy(scalar_profile[f]) => scalar_profile'[f] = scalar_profile[f]]_vars

\* the role a column name stands for: a counselor column serves the counselor
\* field of its kind, any other column the student's field
ColumnRole(col) ==
    IF IsCounselorColumn(col)
    THEN IF Contains(col, <<"e","m","a","i","l">>) THEN "counselor_email"
         ELSE IF IsPhoneColumn(col) THEN "counselor_phone"
         ELSE IF Contains(col, <<"i","d">>) THEN "counselor_id"
         ELSE "counselor_name"
    ELSE results_field(col)
\* the text of the earliest row of the group whose cell of the column is not
\* blank; empty when every cell is blank
EarliestNonEmpty(group, col) ==
    LET filled == {r \in DOMAIN group.rows : group.rows[r][col].kind # "nan"}
    IN  IF filled = {} THEN <<>>
        ELSE str_strip(py_str(group.rows[MinOf(filled)][col]))
SingleGroup ==
    IF scalar_in.mode = "results" THEN scalar_in.results ELSE scalar_in.attendance

\* C19: within one identifier group a scalar field takes the value of the
\* earliest row whose cell of the field's column is not blank; a blank cell
\* in the first row neither sets the field nor hides a later row's value.
\* Stated for the single-file builders and for the columns that are the only
\* one of their field in the table.
C19_EarliestNonEmptyRow ==
    (scalar_pc = "done" /\ scalar_in.mode \in {"results", "attendance"}) =>
        \A k \in DOMAIN SingleGroup.columns :
            LET col == SingleGroup.columns[k]
                f == results_field(col)
            IN  (/\ f # "" /\ f = ColumnRole(col)
                 /\ \A j \in DOMAIN SingleGroup.columns :
                       j # k => results_field(SingleGroup.columns[j]) # f)
                => scalar_profile[f] = EarliestNonEmpty(SingleGroup, col)

\* the column a text cell of the model comes from
ColumnOfText(text) == SubSeq(text, 3, Len(text))

\* C20: a scalar field is populated only from a column of its own role; in
\* particular a counselor email column never populates the student's email.
C20_OwnRoleOnly ==
    \A f \in ScalarFields :
        (Truthy(scalar_profile[f]) /\ scalar_profile[f] # <<"n","a","n">>)
            => ColumnRole(ColumnOfText(scalar_profile[f])) = f

-----------------------------------------------------------------------------
(* Claims about the name fallback of match_students (Spec).                *)

\* the attendance-only profiles of the registry when the n-th attendance
\* group is resolved: created for an earlier group, under its identifier
EarlierAttendanceOnly(n) ==
    {m \in 1..(n - 1) : match_log[m].by = "new" /\ match_log[m].sid # <<>>}

\* C16: the fallback compares the name of an unmatched attendance student
\* with the name of every profile in the registry at that moment, the
\* attendance-only profiles created earlier in the run included: a group that
\* no results profile reaches by name, and whose name reaches 0.85 against
\* such an earlier profile, is merged into a profile, not given a new one.
C16_ComparesWithEveryProfile ==
    \A n \in DOMAIN match_log :
        (/\ match_log[n].by # "id"
         /\ ~accepts(match_log[n].best_score)
         /\ \E m \in EarlierAttendanceOnly(n) :
               accepts(_name_similarity(match_log[n].name, match_log[m].name)))
        => match_log[n].by = "name"

\* the candidates of the n-th attendance group that attain the greatest score
BestCandidates(n) ==
    {c \in DOMAIN id_to_name :
        \A d \in DOMAIN id_to_name :
            ~score_gt(_name_similarity(match_log[n].name, id_to_name[d].val),
                      _name_similarity(match_log[n].name, id_to_name[c].val))}

\* C17: when several candidates attain the same greatest score and it is at
\* least 0.85, the group is merged into the candidate that comes first in
\* the registry's iteration order.
C17_FirstOfTiesWins ==
    \A n \in DOMAIN match_log :
        (/\ match_log[n].by # "id"
         /\ Cardinality(BestCandidates(n)) > 1
         /\ \A c \in BestCandidates(n) :
               accepts(_name_similarity(match_log[n].name, id_to_name[c].val)))
        => /\ match_log[n].by = "name"
           /\ match_log[n].target = id_to_name[MinOf(BestCandidates(n))].key

-----------------------------------------------------------------------------
(* Claims about the shared store (SpecCache).                              *)

\* the requests that stored a profile for the identifier, as positions in
\* store_order
StoredBy(id) == {k \in DOMAIN store_order : id \in requests[store_order[k]].ids}
MaxOf(S) == CHOOSE i \in S : \A j \in S : j <= i

\* C15: under every interleaving of the requests _latest_students maps an
\* identifier to the profile of the request that stored last among the
\* successful requests holding it, and to nothing when no request stored it;
\* a lookup by the trimmed, upper-cased identifier returns that profile, whose
\* results and attendance come from one and the same request.
C15_LastWriterWins ==
    /\ \A id \in CacheIds :
          IF StoredBy(id) = {} THEN ~has_key(_latest_students, id)
          ELSE /\ has_key(_latest_students, id)
               /\ dict_get(_latest_students, id)
                     = [student_id |-> id,
                        results_of |-> store_order[MaxOf(StoredBy(id))],
                        attendance_of |-> store_order[MaxOf(StoredBy(id))]]
    /\ (found # <<>> /\ found.student # None) =>
          /\ found.student.student_id = str_upper(str_strip(found.path))
          /\ found.student.results_of = found.student.attendance_of
          /\ found.student.results_of \in {store_order[k] : k \in DOMAIN store_order}

\* request 2 stored A1 and B2, request 1 stored A1 after it: A1 is request
\* 1's profile, B2 still request 2's, and the lookup of "a1 " returned the former
C15_Witness ==
    /\ store_order = <<2, 1>>
    /\ requests[1].ids = {<<"A","1">>}
    /\ requests[2].ids = CacheIds
    /\ dict_get(_latest_students, <<"A","1">>).results_of = 1
    /\ dict_get(_latest_students, <<"B","2">>).results_of = 2
    /\ found # <<>> /\ found.path = <<"a","1"," ">>
    /\ found.student # None /\ found.student.results_of = 1


\* C30: a step in which an analyze request fails leaves _sessions and
\* _latest_students as they were, and so does every step of a request other
\* than its store; a failed request has no entry in _sessions and every
\* profile in _latest_students comes from a request that stored.
C30_FailedRequestLeavesStores ==
    [][\A r \in DOMAIN requests :
          /\ (requests'[r].pc # requests[r].pc /\ requests'[r].pc # "stored")
                => /\ _sessions' = _sessions
                   /\ _latest_students' = _latest_students
          /\ requests'[r].pc = "failed"
                => /\ ~has_key(_sessions', r)
                   /\ \A k \in DOMAIN _latest_students' :
                         _latest_students'[k].val.results_of # r]_vars

\* request 1 stored A1 and B2, then request 2 with the same identifiers
\* failed in the builder: both profiles are still those of request 1
C30_Witness ==
    /\ requests[1].pc = "stored" /\ requests[1].ids = CacheIds
    /\ requests[2].pc = "failed" /\ requests[2].ids = CacheIds
    /\ requests[2].fault = "match"
    /\ store_order = <<1>>
    /\ \A id \in CacheIds : dict_get(_latest_students, id).results_of = 1
    /\ has_key(_sessions, 1) /\ ~has_key(_sessions, 2)

-----------------------------------------------------------------------------
(* Claims about the CGPA and its source (SpecProfile).                     *)

\* cgpa and cgpa_source of a profile fit together
CgpaFitsSource(p) ==
    /\ p.cgpa_source \in {"", "csv", "computed"}
    /\ (p.cgpa = None) <=> (p.cgpa_source = "")
    /\ p.cgpa_source = "computed" => p.previous_results # <<>>

\* C27: at every moment cgpa is unset iff cgpa_source is empty; the source is
\* "csv" only from the read of the CGPA column (no later step sets or clears
\* it) and becomes "computed" only in a compute step that found cgpa unset
\* and calculated it from previous_results; it is never "computed" with cgpa
\* unset.
C27_CgpaSourceTellsOrigin ==
    [][/\ CgpaFitsSource(profile) /\ CgpaFitsSource(profile')
       /\ (profile'.cgpa_source = "csv") <=> (profile.cgpa_source = "csv")
       /\ (profile'.cgpa_source = "computed" /\ profile.cgpa_source # "computed")
             => /\ last_op' \in {"compute_cgpa", "compute_analytics"}
                /\ profile.cgpa = None /\ profile'.cgpa # None
                /\ profile.previous_results # <<>>]_vars

\* compute_cgpa ran over results none of which counts (unknown grade or no
\* credits): cgpa stayed unset and the source stayed empty
C27_Witness ==
    /\ ppc = "final" /\ last_op = "compute_cgpa"
    /\ profile.previous_results # <<>>
    /\ profile.cgpa = None /\ profile.cgpa_source = ""

-----------------------------------------------------------------------------
(* Claims about the subject rows of a group (SpecSheet).                   *)

\* a cell with something in it: not blank in the decoded table and not only
\* whitespace
CellFilled(cell) == cell.kind = "str" /\ str_strip(cell.v) # <<>>
HasSubject(row) == CellFilled(row.subject_code) \/ CellFilled(row.subject_name)
\* a builder of the named kind returned its list
Returned(builders) ==
    sheet_pc = "done" /\ built.by \in builders /\ built.raised = ""
ResultsBuilders == {"match_students", "build_results_only"}
AttendanceBuilders == {"match_students", "build_attendance_only"}

\* C21: a results row yields a SubjectResult only if it has a subject code or
\* a subject name and a non-empty grade, so the returned profile holds no
\* more results than there are such rows; and when every grade cell of the
\* group is blank the profile holds no result at all.
C21_ResultNeedsSubjectAndGrade ==
    Returned(ResultsBuilders) =>
        LET rows == sheet.results
            kept == {i \in DOMAIN rows : HasSubject(rows[i]) /\ CellFilled(rows[i].grade)}
            results == built.students[1].previous_results
        IN  /\ Len(results) <= Cardinality(kept)
            /\ (\A i \in DOMAIN rows : rows[i].grade = BlankCell) => results = <<>>

\* the integer part of a percentage given in tenths
IntegerPartOfTenths(v) ==
    CHOOSE n \in (0 - Abs(v))..Abs(v) :
        n * v >= 0 /\ 10 * Abs(n) <= Abs(v) /\ Abs(v) < 10 * Abs(n) + 10

\* C22: the returned profile holds one SubjectAttendance per attendance row
\* with a non-empty subject code or name, in file order, and no other; when
\* the file has both the held and the attended column the record carries the
\* numbers of these two cells; only when it has not both and has a percentage
\* column the record carries classes_held = 100 and classes_attended = the
\* integer part of the percentage.
C22_AttendanceColumnsAndAppend ==
    Returned(AttendanceBuilders) =>
        LET rows == sheet.attendance
            kept == {i \in DOMAIN rows : HasSubject(rows[i])}
            recs == built.students[1].attendance_records
            both == {"classes_held", "classes_attended"} \subseteq sheet.columns
            pct == "attendance_percentage" \in sheet.columns
        IN  /\ Len(recs) = Cardinality(kept)
            /\ \A k \in 1..Len(recs) :
                  LET row == rows[KthIndex(kept, k)]
                  IN  /\ both /\ row.classes_held.kind = "num"
                            /\ row.classes_attended.kind = "num"
                         => /\ recs[k].classes_held = row.classes_held.v
                            /\ recs[k].classes_attended = row.classes_attended.v
                      /\ ~both /\ pct /\ row.attendance_percentage.kind = "num"
                         => /\ recs[k].classes_held = 100
                            /\ recs[k].classes_attended =
                                  IntegerPartOfTenths(row.attendance_percentage.v)
                      /\ ~both /\ ~pct => recs[k].classes_held # 100

\* C23: whatever the cells of the credits, held, attended and percentage
\* columns hold (text, blank, infinite, negative), every builder returns its
\* list: no exception leaves a row loop, and the student of the group is in
\* the list.
C23_NoCellAbortsRun ==
    sheet_pc = "done" => built.raised = "" /\ Len(built.students) = 1

\* C24: subject records are appended, never merged or lost: the returned
\* profile holds as many attendance_records as the group has attendance rows
\* with a non-empty subject code or name, and as many previous_results as it
\* has results rows with a non-empty grade, each record carrying the subject
\* name of its row, in file order (a subject listed twice gives two entries).
C24_RecordsAppendedNotLost ==
    /\ sheet_pc = "done" /\ built.by \in AttendanceBuilders =>
          /\ built.students # <<>>
          /\ LET rows == sheet.attendance
                 kept == {i \in DOMAIN rows : HasSubject(rows[i])}
                 recs == built.students[1].attendance_records
             IN  /\ Len(recs) = Cardinality(kept)
                 /\ \A k \in 1..Len(recs) :
                       recs[k].subject_name
                           = str_strip(rows[KthIndex(kept, k)].subject_name.v)
    /\ sheet_pc = "done" /\ built.by \in ResultsBuilders =>
          /\ built.students # <<>>
          /\ LET rows == sheet.results
                 kept == {i \in DOMAIN rows : CellFilled(rows[i].grade)}
                 recs == built.students[1].previous_results
             IN  Len(recs) = Cardinality(kept)

\* C26: for the same attendance rows match_students and build_attendance_only
\* give the same SubjectAttendance records (classes_held, classes_attended,
\* attendance_percentage, status) and the same overall_attendance, whatever
\* the cells hold.
C26_BuildersAgreeOnAttendance ==
    Returned({"match_students"}) =>
        LET only == compute_analytics(
                        append_attendances_only(
                            StudentProfile(<<"A","1">>, <<"R","a","v","i">>),
                            sheet.attendance, 1))
            both == built.students[1]
        IN  /\ both.attendance_records = only.attendance_records
            /\ both.overall_attendance = only.overall_attendance

\* the profile without its i-th attendance record, analytics computed anew
WithoutRecord(p, i) ==
    compute_analytics(
        [p EXCEPT !.attendance_records =
                      SubSeq(@, 1, i - 1) \o SubSeq(@, i + 1, Len(@)),
                  !.overall_attendance = 0])
\* the attendance records of the returned profile with classes_held = 0
RecordsWithoutClasses ==
    {i \in DOMAIN built.students[1].attendance_records :
        built.students[1].attendance_records[i].classes_held = 0}

\* C29 as claimed: a record with classes_held = 0 has attendance_percentage 0
\* and status Red, its profile has has_low_attendance and needs_counseling
\* true, and overall_attendance is what it would be without the record.
C29_NoClassesRecordAddsNothing ==
    Returned(AttendanceBuilders) =>
        \A i \in RecordsWithoutClasses :
            LET p == built.students[1]
            IN  /\ p.attendance_records[i].attendance_percentage = 0
                /\ p.attendance_records[i].status = "Red"
                /\ p.has_low_attendance /\ needs_counseling(p)
                /\ p.overall_attendance = WithoutRecord(p, i).overall_attendance

\* C29: a record with classes_held = 0 has attendance_percentage 0 and status
\* Red, its profile has has_low_attendance and needs_counseling true, and
\* when its classes_attended is 0 as well (as after a failed parse)
\* overall_attendance is what it would be without the record.
C29_NoClassesRecordIsRed ==
    Returned(AttendanceBuilders) =>
        \A i \in RecordsWithoutClasses :
            LET p == built.students[1]
            IN  /\ p.attendance_records[i].attendance_percentage = 0
                /\ p.attendance_records[i].status = "Red"
                /\ p.has_low_attendance /\ needs_counseling(p)
                /\ p.attendance_records[i].classes_attended = 0
                      => p.overall_attendance = WithoutRecord(p, i).overall_attendance

\* a row whose held cell is text and a row with 4 held, 3 attended: the first
\* record is 0/0 and Red, the profile needs counseling, overall is 75.0
C29_Witness ==
    /\ Returned({"match_students"})
    /\ Len(sheet.attendance) = 2
    /\ sheet.columns = {"classes_held", "classes_attended"}
    /\ sheet.attendance[1].classes_held = TextCell
    /\ Len(built.students[1].attendance_records) = 2
    /\ built.students[1].attendance_records[1].classes_held = 0
    /\ built.students[1].attendance_records[1].classes_attended = 0
    /\ built.students[1].attendance_records[1].status = "Red"
    /\ built.students[1].attendance_records[2].status = "Yellow"
    /\ built.students[1].has_low_attendance
    /\ built.students[1].overall_attendance = 7500

-----------------------------------------------------------------------------
(* Claims about the attendance groups of one run (Spec).                   *)

\* C25 as claimed: no profile of match_students receives the rows of two
\* attendance identifier groups, whether by identifier or by name.
C25_AtMostOneGroupPerProfile ==
    \A i, j \in DOMAIN match_log :
        i # j => match_log[i].target # match_log[j].target

\* C25: two attendance identifier groups end in the same profile of
\* match_students only when at least one of them was merged by name: no
\* profile receives two groups by identifier.
C25_AtMostOneGroupByIdentifier ==
    \A i, j \in DOMAIN match_log :
        (i # j /\ match_log[i].target = match_log[j].target)
            => match_log[i].by = "name" \/ match_log[j].by = "name"

\* the run returned a profile that holds the attendance group of its own
\* identifier and, merged by name, the group of another identifier
C25_Witness ==
    /\ pc = "done" /\ mode = "both"
    /\ \E i, j \in DOMAIN match_log :
          /\ match_log[i].by = "id" /\ match_log[j].by = "name"
          /\ match_log[i].target = match_log[j].target
          /\ match_log[j].sid # <<>>
          /\ \E k \in DOMAIN students :
                /\ students[k].student_id = match_log[i].target
                /\ Len(students[k].attendance_records) = 2

====
